---------------------------- MODULE Spec2Model ----------------------------
(***************************************************************************)
(* A model of the CHIP-8 virtual machine of src/src/chip8.rs as the host   *)
(* drives it: load, reset, tick (clock), set_key, save_state, load_state.  *)
(*                                                                         *)
(* Integers keep the width the Rust code gives them.  An arithmetic        *)
(* overflow of an unsigned Rust integer panics in a build with overflow    *)
(* checks (the debug profile) and wraps in a build without them (the       *)
(* release profile); overflow_checks records which build runs and both are *)
(* explored.  A panic ends the run: halted becomes TRUE and the state      *)
(* keeps whatever the handler had written before the panic.                *)
(***************************************************************************)
EXTENDS Integers, Sequences, FiniteSets, TLC

VARIABLES
    state,            \* Chip8.state : Chip8State
    saved_state,      \* Chip8.saved_state : Chip8State
    halted,           \* a panic has ended the run
    overflow_checks,  \* the build traps on integer overflow (debug profile)
    lastOp,           \* history: the host call that produced this state
    prevOp,           \* history: the host call before that one
    rom,              \* history: the buffer of the last load
    ticks,            \* history: clock() calls between the last load/reset and state
    saved_ticks,      \* history: the same count for saved_state
    assembler,        \* the Assembler the host holds
    compiler,         \* the Compiler the host holds
    disasm_opcode,    \* Chip8.disasm_opcode : u16
    disasm_map,       \* Chip8.disasm_map : HashMap<u16, String>
    lexer,            \* the Lexer the host holds
    calls             \* history: the compiled calls in progress, innermost last

vars == <<state, saved_state, halted, overflow_checks, lastOp, prevOp, rom, ticks,
          saved_ticks, assembler, compiler, disasm_opcode, disasm_map, lexer, calls>>

---------------------------------------------------------------------------
(* Bounds of the exploration *)

\* clock() calls the host makes after a load, per specification
MaxTicks == 18
MaxKeyTicks == 7
MaxDrawTicks == 8
MaxSnapTicks == 5
MaxAluTicks == 4
MaxRegTicks == 4
MaxRestoreTicks == 3
MaxBoundsTicks == 245
MaxAsmTicks == 4
\* words an Assembler may hold before the host stops calling assemble()
MaxAsmWords == 4
\* statements in a compiled program
MaxStatements == 2
\* clock() calls on a compiled if statement
MaxIfTicks == 12
\* clock() calls on a compiled while loop
MaxWhileTicks == 2048
\* clock() calls on a compiled condition chain
MaxLogicTicks == 24
\* comparisons in a condition chain
MaxChain == 3
\* variables declared before a block
MaxOuter == 2
\* words in a lexed source
MaxWords == 2
\* variables declared in a program compiled for its registers
MaxVars == 17
\* statements in a program compiled for its literals
MaxLiterals == 2
\* clock() calls before the host disassembles
MaxDisasmTicks == 3

---------------------------------------------------------------------------
(* Program constants *)

RamSize == 4096
RomBase == 512
VideoWidth == 64
VideoHeight == 32
\* 0xFFFFFFFF: a framebuffer cell is a u32; the model keeps its 32 bits in a
\* 32-bit integer, so the all-ones pattern reads as -1 and 0 as 0.
PixelOn == -1

Fontset ==
    << 240, 144, 144, 144, 240,
       32, 96, 32, 32, 112,
       240, 16, 240, 128, 240,
       240, 16, 240, 16, 240,
       144, 144, 240, 16, 16,
       240, 128, 240, 16, 240,
       240, 128, 240, 144, 240,
       240, 16, 32, 64, 64,
       240, 144, 240, 144, 240,
       240, 144, 240, 16, 240,
       240, 144, 240, 144, 144,
       224, 144, 224, 144, 224,
       240, 128, 128, 128, 240,
       224, 144, 144, 144, 224,
       240, 128, 240, 128, 240,
       240, 128, 240, 128, 128 >>

---------------------------------------------------------------------------
(* Bit fields of an opcode and bitwise operations on bytes *)

FieldX(op) == (op \div 256) % 16
FieldY(op) == (op \div 16) % 16
FieldN(op) == op % 16
FieldKK(op) == op % 256
FieldNNN(op) == op % 4096
Family(op) == op \div 4096

RECURSIVE BitAnd(_, _)
BitAnd(a, b) ==
    IF a = 0 \/ b = 0 THEN 0
    ELSE (a % 2) * (b % 2) + 2 * BitAnd(a \div 2, b \div 2)

RECURSIVE BitOr(_, _)
BitOr(a, b) ==
    IF a = 0 THEN b
    ELSE IF b = 0 THEN a
    ELSE (IF a % 2 = 1 \/ b % 2 = 1 THEN 1 ELSE 0) + 2 * BitOr(a \div 2, b \div 2)

RECURSIVE BitXor(_, _)
BitXor(a, b) ==
    IF a = 0 THEN b
    ELSE IF b = 0 THEN a
    ELSE ((a + b) % 2) + 2 * BitXor(a \div 2, b \div 2)

\* Variant: the XOR mask is 1, so only the lowest bit flips.
Xor32LowBit(v) == IF v % 2 = 0 THEN v + 1 ELSE v - 1

\* v ^ 0xFFFFFFFF on a 32-bit pattern: every bit flipped.
Xor32Ones(v) == -1 - v

---------------------------------------------------------------------------
(* Chip8State and the working copy a handler mutates *)

Chip8State_new ==
    [ opcode |-> 0,
      V |-> [i \in 0..15 |-> 0],
      I |-> 0,
      pc |-> 0,
      framebuffer |-> [i \in 0..(VideoWidth * VideoHeight - 1) |-> 0],
      delay_timer |-> 0,
      sound_timer |-> 0,
      stack |-> [i \in 0..15 |-> 0],
      sp |-> 0,
      keys |-> [i \in 0..15 |-> 0],
      ram |-> [i \in 0..(RamSize - 1) |-> 0] ]

\* The machine a handler works on: the state plus "this call has panicked".
Machine(s) ==
    [ opcode |-> s.opcode, V |-> s.V, I |-> s.I, pc |-> s.pc,
      framebuffer |-> s.framebuffer, delay_timer |-> s.delay_timer,
      sound_timer |-> s.sound_timer, stack |-> s.stack, sp |-> s.sp,
      keys |-> s.keys, ram |-> s.ram, panic |-> FALSE ]

StateOf(m) ==
    [ opcode |-> m.opcode, V |-> m.V, I |-> m.I, pc |-> m.pc,
      framebuffer |-> m.framebuffer, delay_timer |-> m.delay_timer,
      sound_timer |-> m.sound_timer, stack |-> m.stack, sp |-> m.sp,
      keys |-> m.keys, ram |-> m.ram ]

Panic(m) == [m EXCEPT !.panic = TRUE]

\* u16 / u8 addition as the build computes it: the wrapped value, and whether
\* the build panics instead of producing it.
WrapU16(v) == v % 65536
WrapU8(v) == v % 256
TrapsU16(v) == overflow_checks /\ (v > 65535 \/ v < 0)
TrapsU8(v) == overflow_checks /\ (v > 255 \/ v < 0)

\* Chip8::read / Chip8::write succeed on 0x000..=0xFFF and panic elsewhere.
InRam(addr) == addr \in 0..(RamSize - 1)

write(m, addr, data) ==
    IF InRam(addr) THEN [m EXCEPT !.ram[addr] = data] ELSE Panic(m)

---------------------------------------------------------------------------
(* compiler.rs: the symbolic opcodes (enum Opcode) *)

LDRegByte(reg, byte) == [op |-> "LDRegByte", a |-> reg, b |-> byte, c |-> 0]
LDRegReg(reg1, reg2) == [op |-> "LDRegReg", a |-> reg1, b |-> reg2, c |-> 0]
AddRegReg(reg1, reg2) == [op |-> "AddRegReg", a |-> reg1, b |-> reg2, c |-> 0]
SubRegReg(reg1, reg2) == [op |-> "SubRegReg", a |-> reg1, b |-> reg2, c |-> 0]
SERegReg(reg1, reg2) == [op |-> "SERegReg", a |-> reg1, b |-> reg2, c |-> 0]
SNERegReg(reg1, reg2) == [op |-> "SNERegReg", a |-> reg1, b |-> reg2, c |-> 0]
LDFReg(reg) == [op |-> "LDFReg", a |-> reg, b |-> 0, c |-> 0]
LDIReg(reg) == [op |-> "LDIReg", a |-> reg, b |-> 0, c |-> 0]
LDRegI(reg) == [op |-> "LDRegI", a |-> reg, b |-> 0, c |-> 0]
LDDTReg(reg) == [op |-> "LDDTReg", a |-> reg, b |-> 0, c |-> 0]
LDRegDT(reg) == [op |-> "LDRegDT", a |-> reg, b |-> 0, c |-> 0]
LDSTReg(reg) == [op |-> "LDSTReg", a |-> reg, b |-> 0, c |-> 0]
LDRegKey(reg) == [op |-> "LDRegKey", a |-> reg, b |-> 0, c |-> 0]
LDIAddr(addr) == [op |-> "LDIAddr", a |-> addr, b |-> 0, c |-> 0]
RNDRegByte(reg, byte) == [op |-> "RNDRegByte", a |-> reg, b |-> byte, c |-> 0]
DRWRegRegNibble(reg1, reg2, nib) ==
    [op |-> "DRWRegRegNibble", a |-> reg1, b |-> reg2, c |-> nib]
JP(addr) == [op |-> "JP", a |-> addr, b |-> 0, c |-> 0]
CALL(addr) == [op |-> "CALL", a |-> addr, b |-> 0, c |-> 0]
RET == [op |-> "RET", a |-> 0, b |-> 0, c |-> 0]

---------------------------------------------------------------------------
(* lexer.rs: the tokens.  A TokenType is its variant name with the payload *)
(* of Number (num) and of Identifier (name); a Token adds the line.        *)

TokenType(type) == [type |-> type, num |-> 0, name |-> ""]
Number(num) == [type |-> "Number", num |-> num, name |-> ""]
Identifier(name) == [type |-> "Identifier", num |-> 0, name |-> name]

Token_new(token_type, line) ==
    [type |-> token_type.type, num |-> token_type.num,
     name |-> token_type.name, line |-> line]

---------------------------------------------------------------------------
(* compiler.rs: the single-pass compiler.  Every operator takes the        *)
(* Compiler and yields it after the call; a panic sets panic and every     *)
(* later step leaves a panicked Compiler as it is.                         *)

\* enum Precedence, as its u8 discriminant
Precedence ==
    [ None |-> 0, Assignment |-> 1, Or |-> 2, And |-> 3, Equality |-> 4,
      Term |-> 5, Factor |-> 6, Primary |-> 7 ]

Variable_new(name, reg_index, scope_depth) ==
    [name |-> name, reg_index |-> reg_index, scope_depth |-> scope_depth]

\* Variant: the function starts at its leading JP.
Function_new_AtJump(start_addr) ==
    [start_addr |-> start_addr - 2, args |-> <<>>]

Function_new(start_addr) == [start_addr |-> start_addr, args |-> <<>>]

\* HashMap::new and HashMap::insert
EmptyMap == [k \in {} |-> 0]
Insert(map, key_, value) == (key_ :> value) @@ map

\* (len as u16 * 2) + 0x200, and whether the build panics computing it
asm_bytes_len(len) == WrapU16(WrapU16((len % 65536) * 2) + 512)
asm_bytes_len_Traps(len) ==
    \/ TrapsU16((len % 65536) * 2)
    \/ TrapsU16(WrapU16((len % 65536) * 2) + 512)

new_from_lexer(tokens) ==
    [ tokens |-> tokens, current |-> 0, previous |-> 0, reg_stack_top |-> 0,
      scope_depth |-> 0, variables |-> <<>>, functions |-> EmptyMap,
      asm |-> <<>>, ram_line_map |-> EmptyMap, panic |-> FALSE ]

\* self.tokens[i]: an index past the end of the vector is a panic.
HasToken(c, i) == i < Len(c.tokens)
NoToken == Token_new(TokenType("<out of bounds>"), 0)
TokenAt(c, i) == IF HasToken(c, i) THEN c.tokens[i + 1] ELSE NoToken

\* A CompileRule: its precedence and the names of its prefix and infix
\* functions ("" for none); found is FALSE where get_rule panics.
CompileRule_new(precedence, prefix, infix) ==
    [precedence |-> precedence, prefix |-> prefix, infix |-> infix,
     found |-> TRUE]

get_rule(token) ==
    CASE token.type \in {"Plus", "Minus"} ->
            CompileRule_new(Precedence.Term, "", "binary")
      [] token.type \in {"Equals", "Semicolon", "RightParen", "Comma"} ->
            CompileRule_new(Precedence.None, "", "")
      [] token.type = "Number" -> CompileRule_new(Precedence.None, "number", "")
      [] token.type = "Identifier" ->
            CompileRule_new(Precedence.None, "variable", "")
      [] token.type \in {"EqualsEquals", "NotEquals"} ->
            CompileRule_new(Precedence.Equality, "", "binary")
      [] token.type = "And" -> CompileRule_new(Precedence.And, "", "and")
      [] token.type = "Or" -> CompileRule_new(Precedence.Or, "", "or")
      [] token.type = "DT" -> CompileRule_new(Precedence.None, "DT", "")
      [] token.type = "ST" -> CompileRule_new(Precedence.None, "ST", "")
      [] token.type = "I" -> CompileRule_new(Precedence.None, "I", "")
      [] token.type = "Rand" -> CompileRule_new(Precedence.None, "rand", "")
      [] token.type = "Key" -> CompileRule_new(Precedence.None, "key", "")
      [] OTHER -> [CompileRule_new(Precedence.None, "", "") EXCEPT
                     !.found = FALSE]

\* Sequencing.  (CHOOSE it \in { e : x \in { v } } : TRUE) is e with x bound to
\* the value of v, v being computed once: the Compiler an operator works on
\* is the result of the calls before it.

emit(c0, opcode) ==
    (CHOOSE it \in {
        IF c.panic THEN c
        ELSE IF ~HasToken(c, c.previous) \/ asm_bytes_len_Traps(Len(c.asm))
        THEN Panic(c)
        ELSE [c EXCEPT !.ram_line_map =
                           Insert(@, asm_bytes_len(Len(c.asm)),
                                  TokenAt(c, c.previous).line),
                       !.asm = Append(@, opcode)]
      : c \in { c0 } } : TRUE)

\* self.asm[index] = opcode, index counted from 0
SetAsm(c0, index, opcode) ==
    (CHOOSE it \in {
        IF c.panic THEN c ELSE [c EXCEPT !.asm[index + 1] = opcode]
      : c \in { c0 } } : TRUE)

\* self.asm[index] = JP(asm_bytes_len(self.asm.len()) + extra)
PatchJP(c0, index, extra) ==
    (CHOOSE it \in {
        IF c.panic THEN c
        ELSE IF \/ asm_bytes_len_Traps(Len(c.asm))
                \/ TrapsU16(asm_bytes_len(Len(c.asm)) + extra)
        THEN Panic(c)
        ELSE [c EXCEPT !.asm[index + 1] =
                           JP(WrapU16(asm_bytes_len(Len(c.asm)) + extra))]
      : c \in { c0 } } : TRUE)

\* for var in variables.iter().rev(): the last variable of that name; found
\* is FALSE for None.
lookup_variable_register(c, name) ==
    IF \A i \in 1..Len(c.variables) : c.variables[i].name # name
    THEN [found |-> FALSE, reg_index |-> 0]
    ELSE [found |-> TRUE,
          reg_index |->
              c.variables[
                  CHOOSE i \in 1..Len(c.variables) :
                      /\ c.variables[i].name = name
                      /\ \A j \in (i + 1)..Len(c.variables) :
                             c.variables[j].name # name].reg_index]

\* Vec::remove(i), i counted from 1 here
Remove(seq, i) == SubSeq(seq, 1, i - 1) \o SubSeq(seq, i + 1, Len(seq))

\* The indices, from k on, of the variables of the current depth
InScope(c, k) ==
    { i \in k..Len(c.variables) :
        c.variables[i].scope_depth = c.scope_depth }

\* variables after the loop has removed those of the current depth from
\* index k on
ClearedFrom(c, k) ==
    SubSeq(c.variables, 1, k - 1)
        \o SelectSeq(SubSeq(c.variables, k, Len(c.variables)),
                     LAMBDA v : v.scope_depth # c.scope_depth)

\* Variant of clear_current_scope: only the last variable is looked at.
clear_current_scope_Last(c0) ==
    (CHOOSE it \in {
        IF c.panic \/ c.variables = <<>> THEN c
        ELSE IF c.variables[Len(c.variables)].scope_depth # c.scope_depth
        THEN c
        ELSE [c EXCEPT !.variables = Remove(@, Len(c.variables)),
                       !.reg_stack_top = WrapU16(@ - 1)]
      : c \in { c0 } } : TRUE)

\* for i in (0..len).rev(): the variables of the current depth go, one
\* register each.  Where the registers run out, the decrement after removal
\* number reg_stack_top + 1 panics in a build with overflow checks.
clear_current_scope(c0) ==
    (CHOOSE it \in {
         IF c.panic THEN c
         ELSE IF TrapsU16(c.reg_stack_top - Cardinality(InScope(c, 1)))
         THEN Panic([c EXCEPT
                       !.variables =
                           ClearedFrom(
                               c, CHOOSE k \in InScope(c, 1) :
                                      Cardinality(InScope(c, k))
                                          = c.reg_stack_top + 1),
                       !.reg_stack_top = 0])
         ELSE [c EXCEPT
                 !.variables = ClearedFrom(c, 1),
                 !.reg_stack_top = WrapU16(@ - Cardinality(InScope(c, 1)))]
       : c \in { c0 } } : TRUE)

\* Variant: the register stack grows by two.
inc_reg_stack_top_ByTwo(c0) ==
    (CHOOSE it \in {
        IF c.panic THEN c
        ELSE IF TrapsU16(c.reg_stack_top + 2) THEN Panic(c)
        ELSE [c EXCEPT !.reg_stack_top = WrapU16(@ + 2)]
      : c \in { c0 } } : TRUE)

inc_reg_stack_top(c0) ==
    (CHOOSE it \in {
        IF c.panic THEN c
        ELSE IF TrapsU16(c.reg_stack_top + 1) THEN Panic(c)
        ELSE [c EXCEPT !.reg_stack_top = WrapU16(@ + 1)]
      : c \in { c0 } } : TRUE)

dec_reg_stack_top(c0) ==
    (CHOOSE it \in {
        IF c.panic THEN c
        ELSE IF TrapsU16(c.reg_stack_top - 1) THEN Panic(c)
        ELSE [c EXCEPT !.reg_stack_top = WrapU16(@ - 1)]
      : c \in { c0 } } : TRUE)

\* self.reg_stack_top - 1 - depth, and whether the build panics computing it
peek_reg_stack(c, depth) == WrapU16(WrapU16(c.reg_stack_top - 1) - depth)
peek_reg_stack_Traps(c, depth) ==
    \/ TrapsU16(c.reg_stack_top - 1)
    \/ TrapsU16(WrapU16(c.reg_stack_top - 1) - depth)

\* self.scope_depth += 1 / -= 1
inc_scope_depth(c0) ==
    (CHOOSE it \in {
        IF c.panic THEN c
        ELSE IF TrapsU16(c.scope_depth + 1) THEN Panic(c)
        ELSE [c EXCEPT !.scope_depth = WrapU16(@ + 1)]
      : c \in { c0 } } : TRUE)

dec_scope_depth(c0) ==
    (CHOOSE it \in {
        IF c.panic THEN c
        ELSE IF TrapsU16(c.scope_depth - 1) THEN Panic(c)
        ELSE [c EXCEPT !.scope_depth = WrapU16(@ - 1)]
      : c \in { c0 } } : TRUE)

advance(c0) ==
    (CHOOSE it \in {
        IF c.panic THEN c
        ELSE [c EXCEPT !.previous = c.current, !.current = c.current + 1]
      : c \in { c0 } } : TRUE)

\* check reads self.tokens[self.current]; CheckPanics is that read failing.
CheckPanics(c) == ~HasToken(c, c.current)
check(c, type) == TokenAt(c, c.current).type = type

consume(c0, type) ==
    (CHOOSE it \in {
        IF c.panic THEN c
        ELSE IF CheckPanics(c) THEN Panic(c)
        ELSE IF TokenAt(c, c.current).type = type THEN advance(c)
        ELSE Panic(c)
      : c \in { c0 } } : TRUE)

\* Variant: the frame pointer advances by 4.
push_frame_ByFour(c) ==
    emit(emit(emit(emit(c, LDFReg(13)), LDIReg(13)), LDRegByte(14, 4)),
         AddRegReg(13, 14))

push_frame(c) ==
    emit(emit(emit(emit(c, LDFReg(13)), LDIReg(13)), LDRegByte(14, 3)),
         AddRegReg(13, 14))

\* Variant: the frame pointer goes back by 2.
pop_frame_ByTwo(c) ==
    emit(emit(emit(emit(emit(c, LDRegByte(14, 2)), SubRegReg(13, 14)),
                   LDFReg(13)), LDRegI(13)), RET)

pop_frame(c) ==
    emit(emit(emit(emit(emit(c, LDRegByte(14, 3)), SubRegReg(13, 14)),
                   LDFReg(13)), LDRegI(13)), RET)

RECURSIVE compile_precedence(_, _), compile_precedence_loop(_, _, _),
          CallRule(_, _, _), declaration(_), fn_declaration(_),
          fn_args_loop(_, _, _), var_declaration(_), statement(_),
          block(_), block_loop(_), if_statement(_), while_statement(_),
          draw_statement(_), expression_statement(_), expression(_),
          number(_, _), variable(_, _), call_args_loop(_),
          call_moves(_, _, _), DT(_, _), ST(_, _), I(_, _), rand(_, _),
          Compiler_key(_, _), binary(_, _), or(_, _), and(_, _),
          compile(_)

\* prefix(self, assign_allowed) / infix(self, assign_allowed) through the
\* function the rule names
CallRule(rule, c, assign_allowed) ==
    CASE rule = "number" -> number(c, assign_allowed)
      [] rule = "variable" -> variable(c, assign_allowed)
      [] rule = "DT" -> DT(c, assign_allowed)
      [] rule = "ST" -> ST(c, assign_allowed)
      [] rule = "I" -> I(c, assign_allowed)
      [] rule = "rand" -> rand(c, assign_allowed)
      [] rule = "key" -> Compiler_key(c, assign_allowed)
      [] rule = "binary" -> binary(c, assign_allowed)
      [] rule = "and" -> and(c, assign_allowed)
      [] rule = "or" -> or(c, assign_allowed)

\* while precedence <= get_rule(tokens[current]).precedence { advance; infix }
compile_precedence_loop(c, precedence, assign_allowed) ==
    IF c.panic THEN c
    ELSE IF CheckPanics(c) \/ ~get_rule(TokenAt(c, c.current)).found
    THEN Panic(c)
    ELSE IF ~(precedence <= get_rule(TokenAt(c, c.current)).precedence)
    THEN c
    ELSE (CHOOSE it \in {
             (CHOOSE it \in {
                  compile_precedence_loop(c2, precedence, assign_allowed)
                : c2 \in { IF get_rule(TokenAt(c1, c1.previous)).infix # ""
                           THEN CallRule(
                                    get_rule(TokenAt(c1, c1.previous)).infix,
                                    c1, assign_allowed)
                           ELSE c1 } } : TRUE)
           : c1 \in { advance(c) } } : TRUE)

compile_precedence(c, precedence) ==
    (CHOOSE it \in {
         IF c1.panic THEN c1
         ELSE IF \/ ~HasToken(c1, c1.previous)
                 \/ ~get_rule(TokenAt(c1, c1.previous)).found
                 \/ get_rule(TokenAt(c1, c1.previous)).prefix = ""
         THEN Panic(c1)
         ELSE (CHOOSE it \in {
                  compile_precedence_loop(
                      c2, precedence, precedence <= Precedence.Assignment)
                : c2 \in { CallRule(get_rule(TokenAt(c1, c1.previous)).prefix,
                                    c1,
                                    precedence <= Precedence.Assignment) } }
                : TRUE)
       : c1 \in { advance(c) } } : TRUE)

\* while !check(EndOfFile) { declaration }
compile(c) ==
    CASE c.panic -> c
      [] ~c.panic /\ CheckPanics(c) -> Panic(c)
      [] ~c.panic /\ ~CheckPanics(c) /\ check(c, "EndOfFile") -> c
      [] OTHER ->
            (CHOOSE it \in { compile(c1) : c1 \in { declaration(c) } } : TRUE)

declaration(c) ==
    IF c.panic THEN c
    ELSE IF CheckPanics(c) THEN Panic(c)
    ELSE CASE check(c, "Fn") -> fn_declaration(advance(c))
           [] check(c, "Var") -> var_declaration(advance(c))
           [] OTHER -> statement(c)

\* One more parameter: the Identifier at previous joins the function's args
\* and the variables, in register reg.
PushArg(c0, fn_name, reg) ==
    (CHOOSE it \in {
        IF c.panic THEN c
        ELSE IF \/ ~HasToken(c, c.previous)
                \/ TokenAt(c, c.previous).type # "Identifier"
                \/ fn_name \notin DOMAIN c.functions
        THEN Panic(c)
        ELSE [c EXCEPT !.functions[fn_name].args =
                           Append(@, TokenAt(c, c.previous).name),
                       !.variables =
                           Append(@, Variable_new(TokenAt(c, c.previous).name,
                                                  reg, c.scope_depth))]
      : c \in { c0 } } : TRUE)

\* while check(Comma) { cur_arg_assigned_reg += 1; advance; advance; push };
\* yields the Compiler and cur_arg_assigned_reg.
fn_args_loop(c0, fn_name, cur_arg_assigned_reg) ==
    (CHOOSE it \in {
        IF c.panic THEN [c |-> c, reg |-> cur_arg_assigned_reg]
        ELSE IF CheckPanics(c)
        THEN [c |-> Panic(c), reg |-> cur_arg_assigned_reg]
        ELSE IF ~check(c, "Comma")
        THEN [c |-> c, reg |-> cur_arg_assigned_reg]
        ELSE IF TrapsU16(cur_arg_assigned_reg + 1)
        THEN [c |-> Panic(c), reg |-> cur_arg_assigned_reg]
        ELSE fn_args_loop(
                 PushArg(advance(advance(c)), fn_name,
                         WrapU16(cur_arg_assigned_reg + 1)),
                 fn_name, WrapU16(cur_arg_assigned_reg + 1))
      : c \in { c0 } } : TRUE)

\* The parameter list: the Compiler after it, has_args and
\* cur_arg_assigned_reg.
fn_parameters(c0, fn_name) ==
    (CHOOSE it \in {
        IF c.panic THEN [c |-> c, reg |-> 0, has_args |-> FALSE]
        ELSE IF CheckPanics(c)
        THEN [c |-> Panic(c), reg |-> 0, has_args |-> FALSE]
        ELSE IF check(c, "RightParen")
        THEN [c |-> c, reg |-> 0, has_args |-> FALSE]
        ELSE (CHOOSE it \in {
                      [c |-> args.c, reg |-> args.reg, has_args |-> TRUE]
               : args \in { fn_args_loop(PushArg(advance(c), fn_name, 0), fn_name, 0) } } : TRUE)
      : c \in { c0 } } : TRUE)

\* From the opening brace on: the body in its own scope and register frame,
\* the epilogue, and the jump over the function.
fn_body(c0, has_args, cur_arg_assigned_reg) ==
    (CHOOSE it \in {
         IF c4.panic THEN c4
         ELSE IF has_args /\ TrapsU16(cur_arg_assigned_reg + 1) THEN Panic(c4)
         ELSE (CHOOSE it \in {
                  (CHOOSE it \in {
                       IF c7.panic THEN c7
                       ELSE [c7 EXCEPT !.reg_stack_top = c4.reg_stack_top]
                     : c7 \in { dec_scope_depth(clear_current_scope(
                                    PatchJP(pop_frame(c5), Len(c4.asm), 0))) } }
                     : TRUE)
                : c5 \in { block(emit(
                               [c4 EXCEPT !.reg_stack_top =
                                    IF has_args
                                    THEN WrapU16(cur_arg_assigned_reg + 1)
                                    ELSE cur_arg_assigned_reg],
                               JP(0))) } } : TRUE)
       : c4 \in { inc_scope_depth(consume(c0, "LeftBrace")) } } : TRUE)

fn_declaration(c) ==
    IF c.panic THEN c
    ELSE IF CheckPanics(c) \/ TokenAt(c, c.current).type # "Identifier"
    THEN Panic(c)
    ELSE IF \/ asm_bytes_len_Traps(Len(c.asm))
            \/ TrapsU16(asm_bytes_len(Len(c.asm)) + 2)
    THEN Panic(advance(c))
    ELSE (CHOOSE it \in {
             fn_body(consume(params.c, "RightParen"),
                     params.has_args, params.reg)
           : params \in {
                 fn_parameters(
                     consume(
                         [advance(c) EXCEPT !.functions =
                             Insert(@, TokenAt(c, c.current).name,
                                    Function_new(
                                        WrapU16(asm_bytes_len(Len(c.asm))
                                                + 2)))],
                         "LeftParen"),
                     TokenAt(c, c.current).name) } } : TRUE)

var_declaration(c) ==
    IF c.panic THEN c
    ELSE IF CheckPanics(c) \/ TokenAt(c, c.current).type # "Identifier"
    THEN Panic(c)
    ELSE (CHOOSE it \in {
             (CHOOSE it \in {
                  IF c2.panic THEN c2
                  ELSE IF CheckPanics(c2) THEN Panic(c2)
                  ELSE IF check(c2, "Equals")
                  THEN (CHOOSE it \in {
                            consume(c3, "Semicolon")
                          : c3 \in { expression(advance(c2)) } } : TRUE)
                  ELSE consume(c2, "Semicolon")
                : c2 \in { IF CheckPanics(c1) \/ ~check(c1, "Equals")
                           THEN Panic(c1)
                           ELSE expression(advance(c1)) } } : TRUE)
           : c1 \in { [advance(c) EXCEPT !.variables =
                          Append(@, Variable_new(TokenAt(c, c.current).name,
                                                 c.reg_stack_top,
                                                 c.scope_depth))] } } : TRUE)

statement(c) ==
    IF c.panic THEN c
    ELSE IF CheckPanics(c) THEN Panic(c)
    ELSE CASE check(c, "LeftBrace") ->
                (CHOOSE it \in {
                     dec_scope_depth(clear_current_scope(c1))
                   : c1 \in { block(inc_scope_depth(advance(c))) } } : TRUE)
           [] check(c, "If") -> if_statement(advance(c))
           [] check(c, "While") -> while_statement(advance(c))
           [] check(c, "Draw") -> draw_statement(advance(c))
           [] OTHER -> expression_statement(c)

\* while !check(RightBrace) && !check(EndOfFile) { declaration }
block_loop(c) ==
    CASE c.panic -> c
      [] ~c.panic /\ CheckPanics(c) -> Panic(c)
      [] /\ ~c.panic /\ ~CheckPanics(c)
         /\ check(c, "RightBrace") \/ check(c, "EndOfFile") -> c
      [] OTHER ->
            (CHOOSE it \in {
                 block_loop(c1) : c1 \in { declaration(c) } } : TRUE)

block(c) ==
    (CHOOSE it \in {
         consume(c1, "RightBrace") : c1 \in { block_loop(c) } } : TRUE)

\* Variant of if_statement: the first JP is patched to the second JP instead
\* of the instruction after it.
if_statement_ElseAtJump(c) ==
    (CHOOSE it \in {
         (CHOOSE it \in {
              IF c2.panic THEN c2
              ELSE IF CheckPanics(c2) THEN Panic(c2)
              ELSE IF check(c2, "Else")
              THEN (CHOOSE it \in {
                       (CHOOSE it \in {
                            PatchJP(c4, Len(c3.asm), 0)
                          : c4 \in { statement(emit(c3, JP(0))) } } : TRUE)
                     : c3 \in { advance(PatchJP(c2, Len(c1.asm), 0)) } }
                     : TRUE)
              ELSE PatchJP(c2, Len(c1.asm), 0)
            : c2 \in { statement(emit(c1, JP(0))) } } : TRUE)
       : c1 \in { (CHOOSE it \in {
                       consume(e, "RightParen")
                     : e \in { expression(consume(c, "LeftParen")) } }
                     : TRUE) } } : TRUE)

if_statement(c) ==
    (CHOOSE it \in {
         (CHOOSE it \in {
              IF c2.panic THEN c2
              ELSE IF CheckPanics(c2) THEN Panic(c2)
              ELSE IF check(c2, "Else")
              THEN (CHOOSE it \in {
                       (CHOOSE it \in {
                            PatchJP(c4, Len(c3.asm), 0)
                          : c4 \in { statement(emit(c3, JP(0))) } } : TRUE)
                     : c3 \in { advance(PatchJP(c2, Len(c1.asm), 2)) } }
                     : TRUE)
              ELSE PatchJP(c2, Len(c1.asm), 0)
            : c2 \in { statement(emit(c1, JP(0))) } } : TRUE)
       : c1 \in { (CHOOSE it \in {
                       consume(e, "RightParen")
                     : e \in { expression(consume(c, "LeftParen")) } }
                     : TRUE) } } : TRUE)

\* Variant of while_statement: the back JP targets the second instruction of
\* the condition.
while_statement_PastStart(c) ==
    IF c.panic THEN c
    ELSE IF asm_bytes_len_Traps(Len(c.asm)) THEN Panic(c)
    ELSE (CHOOSE it \in {
             (CHOOSE it \in {
                  PatchJP(SetAsm(emit(c2, JP(0)), Len(c2.asm),
                                 JP(asm_bytes_len(Len(c.asm)) + 2)),
                          Len(c1.asm), 0)
                : c2 \in { statement(emit(c1, JP(0))) } } : TRUE)
           : c1 \in { (CHOOSE it \in {
                           consume(e, "RightParen")
                         : e \in { expression(consume(c, "LeftParen")) } }
                         : TRUE) } } : TRUE)

while_statement(c) ==
    IF c.panic THEN c
    ELSE IF asm_bytes_len_Traps(Len(c.asm)) THEN Panic(c)
    ELSE (CHOOSE it \in {
             (CHOOSE it \in {
                  PatchJP(SetAsm(emit(c2, JP(0)), Len(c2.asm),
                                 JP(asm_bytes_len(Len(c.asm)))),
                          Len(c1.asm), 0)
                : c2 \in { statement(emit(c1, JP(0))) } } : TRUE)
           : c1 \in { (CHOOSE it \in {
                           consume(e, "RightParen")
                         : e \in { expression(consume(c, "LeftParen")) } }
                         : TRUE) } } : TRUE)

draw_statement(c) ==
    (CHOOSE it \in {
         (CHOOSE it \in {
              (CHOOSE it \in {
                   IF c1.panic THEN c1
                   ELSE IF \/ CheckPanics(c1)
                           \/ TokenAt(c1, c1.current).type # "Number"
                   THEN Panic(c1)
                   ELSE (CHOOSE it \in {
                            IF c2.panic THEN c2
                            ELSE IF \/ peek_reg_stack_Traps(c2, 1)
                                    \/ peek_reg_stack_Traps(c2, 0)
                            THEN Panic(c2)
                            ELSE consume(
                                     dec_reg_stack_top(dec_reg_stack_top(
                                         emit(c2, DRWRegRegNibble(
                                                      peek_reg_stack(c2, 1),
                                                      peek_reg_stack(c2, 0),
                                                      TokenAt(c1, c1.current)
                                                          .num)))),
                                     "Semicolon")
                          : c2 \in { consume(advance(c1), "RightParen") } }
                          : TRUE)
                 : c1 \in { consume(e2, "Comma") } } : TRUE)
            : e2 \in { expression(consume(e1, "Comma")) } } : TRUE)
       : e1 \in { expression(consume(c, "LeftParen")) } } : TRUE)

expression_statement(c) ==
    (CHOOSE it \in {
         dec_reg_stack_top(consume(c1, "Semicolon"))
       : c1 \in { expression(c) } } : TRUE)

expression(c) == compile_precedence(c, Precedence.Assignment)

number(c0, assign_allowed) ==
    (CHOOSE it \in {
        IF c.panic THEN c
        ELSE IF \/ ~HasToken(c, c.previous)
                \/ TokenAt(c, c.previous).type # "Number"
        THEN Panic(c)
        ELSE inc_reg_stack_top(
                 emit(c, LDRegByte(c.reg_stack_top,
                                   TokenAt(c, c.previous).num)))
      : c \in { c0 } } : TRUE)

\* while check(Comma) { advance; expression }
call_args_loop(c) ==
    IF c.panic THEN c
    ELSE IF CheckPanics(c) THEN Panic(c)
    ELSE IF check(c, "Comma")
    THEN (CHOOSE it \in {
              call_args_loop(c1) : c1 \in { expression(advance(c)) } } : TRUE)
    ELSE c

\* for i in 0..num_args: emit LDRegReg(i, (reg_stack_top - num_args) + i)
call_moves(c0, num_args, i) ==
    (CHOOSE it \in {
        IF c.panic \/ i >= num_args THEN c
        ELSE IF \/ TrapsU16(c.reg_stack_top - num_args)
                \/ TrapsU16(WrapU16(c.reg_stack_top - num_args) + i)
        THEN Panic(c)
        ELSE call_moves(
                 emit(c, LDRegReg(i, WrapU16(WrapU16(c.reg_stack_top
                                                     - num_args) + i))),
                 num_args, i + 1)
      : c \in { c0 } } : TRUE)

\* name = expression: the value on top of the register stack goes to the
\* variable's register.
variable_assign(c, name) ==
    (CHOOSE it \in {
         IF c1.panic THEN c1
         ELSE IF \/ ~lookup_variable_register(c1, name).found
                 \/ peek_reg_stack_Traps(c1, 0)
         THEN Panic(c1)
         ELSE dec_reg_stack_top(
                  emit(c1, LDRegReg(
                               lookup_variable_register(c1, name).reg_index,
                               peek_reg_stack(c1, 0))))
       : c1 \in { expression(advance(c)) } } : TRUE)

\* name(arguments): the frame push, the arguments, their moves into V0..,
\* and the CALL.
variable_call(c, name) ==
    (CHOOSE it \in {
         (CHOOSE it \in {
              IF c2.panic THEN c2
              ELSE IF name \notin DOMAIN c2.functions THEN Panic(c2)
              ELSE (CHOOSE it \in {
                       IF c3.panic THEN c3
                       ELSE IF TrapsU16(c3.reg_stack_top
                                        - Len(c3.functions[name].args))
                       THEN Panic(c3)
                       ELSE emit(consume(
                                     [c3 EXCEPT !.reg_stack_top =
                                         WrapU16(@ - Len(c3.functions[name]
                                                             .args))],
                                     "RightParen"),
                                 CALL(c3.functions[name].start_addr))
                     : c3 \in { call_moves(
                                    c2, Len(c2.functions[name].args), 0) } }
                     : TRUE)
            : c2 \in { IF c1.panic THEN c1
                       ELSE IF CheckPanics(c1) THEN Panic(c1)
                       ELSE IF ~check(c1, "RightParen")
                       THEN (CHOOSE it \in {
                                 call_args_loop(e) : e \in { expression(c1) } }
                                 : TRUE)
                       ELSE c1 } } : TRUE)
       : c1 \in { push_frame(advance(c)) } } : TRUE)

variable(c, assign_allowed) ==
    IF c.panic THEN c
    ELSE IF ~HasToken(c, c.previous) \/ CheckPanics(c) THEN Panic(c)
    ELSE IF TokenAt(c, c.previous).type # "Identifier" THEN Panic(c)
    ELSE CASE TokenAt(c, c.current).type = "Equals" ->
                (CHOOSE it \in {
                     inc_reg_stack_top(c1)
                   : c1 \in { variable_assign(
                                  c, TokenAt(c, c.previous).name) } } : TRUE)
           [] TokenAt(c, c.current).type = "LeftParen" ->
                (CHOOSE it \in {
                     inc_reg_stack_top(c1)
                   : c1 \in { variable_call(
                                  c, TokenAt(c, c.previous).name) } } : TRUE)
           [] OTHER ->
                IF ~lookup_variable_register(
                        c, TokenAt(c, c.previous).name).found
                THEN Panic(c)
                ELSE inc_reg_stack_top(
                         emit(c, LDRegReg(
                                     c.reg_stack_top,
                                     lookup_variable_register(
                                         c, TokenAt(c, c.previous).name)
                                         .reg_index)))

DT(c, assign_allowed) ==
    IF c.panic THEN c
    ELSE IF ~HasToken(c, c.previous) \/ CheckPanics(c) THEN Panic(c)
    ELSE IF TokenAt(c, c.previous).type # "DT" THEN Panic(c)
    ELSE IF TokenAt(c, c.current).type = "Equals"
    THEN (CHOOSE it \in {
              IF c1.panic THEN c1
              ELSE IF peek_reg_stack_Traps(c1, 0) THEN Panic(c1)
              ELSE emit(c1, LDDTReg(peek_reg_stack(c1, 0)))
            : c1 \in { expression(advance(c)) } } : TRUE)
    ELSE inc_reg_stack_top(emit(c, LDRegDT(c.reg_stack_top)))

ST(c, assign_allowed) ==
    IF c.panic THEN c
    ELSE IF ~HasToken(c, c.previous) \/ CheckPanics(c) THEN Panic(c)
    ELSE IF TokenAt(c, c.previous).type # "ST" THEN Panic(c)
    ELSE IF TokenAt(c, c.current).type = "Equals"
    THEN (CHOOSE it \in {
              IF c1.panic THEN c1
              ELSE IF peek_reg_stack_Traps(c1, 0) THEN Panic(c1)
              ELSE emit(c1, LDSTReg(peek_reg_stack(c1, 0)))
            : c1 \in { expression(advance(c)) } } : TRUE)
    ELSE Panic(c)

I(c0, assign_allowed) ==
    (CHOOSE it \in {
        IF c.panic THEN c
        ELSE IF ~HasToken(c, c.previous) \/ CheckPanics(c) THEN Panic(c)
        ELSE IF TokenAt(c, c.previous).type # "I" THEN Panic(c)
        ELSE IF TokenAt(c, c.current).type = "Equals"
        THEN (CHOOSE it \in {
                 IF CheckPanics(c1) \/ TokenAt(c1, c1.current).type # "Number"
                 THEN Panic(c1)
                 ELSE inc_reg_stack_top(
                          emit(advance(c1),
                               LDIAddr(TokenAt(c1, c1.current).num)))
               : c1 \in { advance(c) } } : TRUE)
        ELSE Panic(c)
      : c \in { c0 } } : TRUE)

rand(c0, assign_allowed) ==
    (CHOOSE it \in {
        IF c.panic THEN c
        ELSE IF ~HasToken(c, c.previous) \/ CheckPanics(c) THEN Panic(c)
        ELSE IF TokenAt(c, c.previous).type # "Rand" THEN Panic(c)
        ELSE IF TokenAt(c, c.current).type = "LeftParen"
        THEN (CHOOSE it \in {
                 IF c1.panic THEN c1
                 ELSE IF \/ CheckPanics(c1)
                         \/ TokenAt(c1, c1.current).type # "Number"
                 THEN Panic(c1)
                 ELSE (CHOOSE it \in {
                          inc_reg_stack_top(
                              emit(c2, RNDRegByte(
                                           c2.reg_stack_top,
                                           TokenAt(c1, c1.current).num)))
                        : c2 \in { consume(advance(c1), "RightParen") } } : TRUE)
               : c1 \in { consume(c, "LeftParen") } } : TRUE)
        ELSE Panic(c)
      : c \in { c0 } } : TRUE)

Compiler_key(c0, assign_allowed) ==
    (CHOOSE it \in {
        IF c.panic THEN c
        ELSE IF ~HasToken(c, c.previous) \/ CheckPanics(c) THEN Panic(c)
        ELSE IF TokenAt(c, c.previous).type # "Key" THEN Panic(c)
        ELSE IF TokenAt(c, c.current).type = "LeftParen"
        THEN (CHOOSE it \in {
                      inc_reg_stack_top(emit(c1, LDRegKey(c1.reg_stack_top)))
               : c1 \in { consume(consume(c, "LeftParen"), "RightParen") } } : TRUE)
        ELSE Panic(c)
      : c \in { c0 } } : TRUE)

\* emit(Op(peek_reg_stack(1), peek_reg_stack(0)))
EmitOnTopTwo(c0, Op(_, _)) ==
    (CHOOSE it \in {
        IF c.panic THEN c
        ELSE IF peek_reg_stack_Traps(c, 1) \/ peek_reg_stack_Traps(c, 0)
        THEN Panic(c)
        ELSE emit(c, Op(peek_reg_stack(c, 1), peek_reg_stack(c, 0)))
      : c \in { c0 } } : TRUE)

binary(c, assign_allowed) ==
    IF c.panic THEN c
    ELSE IF \/ ~HasToken(c, c.previous)
            \/ ~get_rule(TokenAt(c, c.previous)).found
            \/ get_rule(TokenAt(c, c.previous)).precedence + 1
                   > Precedence.Primary
    THEN Panic(c)
    ELSE (CHOOSE it \in {
             CASE TokenAt(c, c.previous).type = "Plus" ->
                    dec_reg_stack_top(EmitOnTopTwo(c1, AddRegReg))
               [] TokenAt(c, c.previous).type = "Minus" ->
                    dec_reg_stack_top(EmitOnTopTwo(c1, SubRegReg))
               [] TokenAt(c, c.previous).type = "EqualsEquals" ->
                    dec_reg_stack_top(dec_reg_stack_top(
                        EmitOnTopTwo(c1, SERegReg)))
               [] TokenAt(c, c.previous).type = "NotEquals" ->
                    dec_reg_stack_top(dec_reg_stack_top(
                        EmitOnTopTwo(c1, SNERegReg)))
               [] OTHER -> Panic(c1)
           : c1 \in { compile_precedence(
                          c, get_rule(TokenAt(c, c.previous)).precedence
                                 + 1) } } : TRUE)

\* Variant of or: the second JP targets the instruction after the right
\* operand instead of the one after that.
or_ToExit(c, assign_allowed) ==
    (CHOOSE it \in {
         PatchJP(c1, Len(c.asm) + 1, 0)
       : c1 \in { compile_precedence(
                      PatchJP(emit(emit(c, JP(0)), JP(0)), Len(c.asm), 0),
                      Precedence.Or) } } : TRUE)

or(c, assign_allowed) ==
    (CHOOSE it \in {
         PatchJP(c1, Len(c.asm) + 1, 2)
       : c1 \in { compile_precedence(
                      PatchJP(emit(emit(c, JP(0)), JP(0)), Len(c.asm), 0),
                      Precedence.Or) } } : TRUE)

and(c, assign_allowed) ==
    (CHOOSE it \in {
         PatchJP(c1, Len(c.asm), 0)
       : c1 \in { compile_precedence(emit(c, JP(0)), Precedence.And) } }
       : TRUE)

---------------------------------------------------------------------------
(* lexer.rs: the scanner.  src is the source text, a character the string  *)
(* of length one; start and current count characters from 0.               *)

\* char::is_digit(10), is_alphabetic, is_alphanumeric, is_whitespace, on the
\* characters the sources of the model are written with
is_digit(ch) == ch \in {"0", "1", "2", "3", "4", "5", "6", "7", "8", "9"}
is_alphabetic(ch) ==
    ch \in {"a", "b", "d", "e", "f", "h", "i", "l", "n", "o", "r", "s", "t",
            "u", "v", "w", "x", "A", "D", "E", "I", "K", "N", "R", "S", "T",
            "W", "Y"}
is_alphanumeric(ch) == is_alphabetic(ch) \/ is_digit(ch)
is_whitespace(ch) == ch \in {" ", "\n", "\t"}

\* The keywords table of Lexer::new
keywords ==
    ("true" :> "True") @@ ("false" :> "False") @@ ("if" :> "If")
        @@ ("else" :> "Else") @@ ("and" :> "And") @@ ("or" :> "Or")
        @@ ("var" :> "Var") @@ ("while" :> "While") @@ ("fn" :> "Fn")
        @@ ("DT" :> "DT") @@ ("ST" :> "ST") @@ ("I" :> "I")
        @@ ("RAND" :> "Rand") @@ ("DRAW" :> "Draw") @@ ("KEY" :> "Key")

Lexer_new(src) ==
    [ src |-> src, start |-> 0, current |-> 0, line |-> 0, tokens |-> <<>>,
      panic |-> FALSE ]

is_at_end(l) == l.current >= Len(l.src)

\* '\0' at the end of the source is written "" here
peek(l) ==
    IF is_at_end(l) THEN "" ELSE SubSeq(l.src, l.current + 1, l.current + 1)

Lexer_advance(l) == [l EXCEPT !.current = @ + 1]

\* match_char: the lexer after the call; it has advanced iff the call
\* returned true
match_char(l, expected) ==
    IF is_at_end(l) \/ peek(l) # expected THEN l ELSE Lexer_advance(l)

push(l, token_type) ==
    [l EXCEPT !.tokens = Append(@, Token_new(token_type, l.line))]

\* while self.peek().is_digit(10) { advance } and its alphanumeric twin
RECURSIVE advance_digits(_)
advance_digits(l) ==
    IF is_digit(peek(l)) THEN advance_digits(Lexer_advance(l)) ELSE l
RECURSIVE advance_alphanumerics(_)
advance_alphanumerics(l) ==
    IF is_alphanumeric(peek(l)) THEN advance_alphanumerics(Lexer_advance(l))
    ELSE l

\* src[start..current] collected into a String
lexeme(l) == SubSeq(l.src, l.start + 1, l.current)

\* str::parse::<u16>() of a run of digits: the number, 65536 and more
\* standing for the Err that unwrap() panics on
DigitValue(ch) ==
    CHOOSE v \in 0..9 :
        <<"0", "1", "2", "3", "4", "5", "6", "7", "8", "9">>[v + 1] = ch
RECURSIVE parse(_)
parse(digits) ==
    IF digits = "" THEN 0
    ELSE LET high == parse(SubSeq(digits, 1, Len(digits) - 1)) IN
         IF high > 65535 THEN high
         ELSE high * 10 + DigitValue(SubSeq(digits, Len(digits), Len(digits)))

\* One turn of the while loop of lex(): the token that starts at current
lex_token(l0) ==
    (CHOOSE it \in {
    (CHOOSE it \in {
    (CHOOSE it \in {
        CASE character = "+" -> push(l, TokenType("Plus"))
          [] character = "-" -> push(l, TokenType("Minus"))
          [] character = "/" -> push(l, TokenType("ForwardSlash"))
          [] character = "{" -> push(l, TokenType("LeftBrace"))
          [] character = "}" -> push(l, TokenType("RightBrace"))
          [] character = "(" -> push(l, TokenType("LeftParen"))
          [] character = ")" -> push(l, TokenType("RightParen"))
          [] character = ";" -> push(l, TokenType("Semicolon"))
          [] character = "," -> push(l, TokenType("Comma"))
          [] character = "=" ->
                IF match_char(l, "=") # l
                THEN push(match_char(l, "="), TokenType("EqualsEquals"))
                ELSE push(l, TokenType("Equals"))
          [] character = "!" ->
                IF match_char(l, "=") # l
                THEN push(match_char(l, "="), TokenType("NotEquals"))
                ELSE push(l, TokenType("Not"))
          [] character = "\n" -> [l EXCEPT !.line = @ + 1]
          [] OTHER ->
                IF is_digit(character) THEN
                    (CHOOSE it \in {
                        IF parse(lexeme(l2)) > 65535
                        THEN [l2 EXCEPT !.panic = TRUE]
                        ELSE push(l2, Number(parse(lexeme(l2))))
                      : l2 \in { advance_digits(l) } } : TRUE)
                ELSE IF is_alphabetic(character) THEN
                    (CHOOSE it \in {
                        IF lexeme(l2) \in DOMAIN keywords
                        THEN push(l2, TokenType(keywords[lexeme(l2)]))
                        ELSE push(l2, Identifier(lexeme(l2)))
                      : l2 \in { advance_alphanumerics(l) } } : TRUE)
                ELSE IF is_whitespace(character) THEN l
                ELSE push(l, TokenType("ErrorToken"))
      : l \in { Lexer_advance(l1) } } : TRUE)
      : character \in { peek(l1) } } : TRUE)
      : l1 \in { [l0 EXCEPT !.start = l0.current] } } : TRUE)

RECURSIVE lex_loop(_)
lex_loop(l0) ==
    (CHOOSE it \in {
        IF l.panic \/ is_at_end(l) THEN l ELSE lex_loop(lex_token(l))
      : l \in { l0 } } : TRUE)

lex(l0) ==
    (CHOOSE it \in {
        IF l.panic THEN l ELSE push(l, TokenType("EndOfFile"))
      : l \in { lex_loop(l0) } } : TRUE)

---------------------------------------------------------------------------
(* The sources the host lexes: words, alone or in a row with a separator   *)
(* between them, and numbers.                                              *)

LexerWords ==
    { "DT", "ST", "I", "RAND", "DRAW", "KEY", "true", "false", "if", "else",
      "and", "or", "var", "while", "not", "fn",
      "a", "x1", "iff", "If", "dt", "vars", "nota", "test", "I2", "fn1" }
LexerSeparators == { " ", "\n", "(", " == " }
RECURSIVE WordRows(_)
WordRows(n) ==
    IF n = 1 THEN LexerWords
    ELSE LET shorter == WordRows(n - 1) IN
         shorter \cup { s \o sep \o w : s \in shorter, sep \in LexerSeparators,
                                        w \in LexerWords }
LexerSources ==
    WordRows(MaxWords)
        \cup { "123", "65535", "65536", "1a", "7DT", "8 == 5 != !0;",
               "var a = 50;\na = a + 20;" }

---------------------------------------------------------------------------
(* The programs the host compiles, as the token vectors Lexer::lex leaves  *)
(* for them (every vector ends with EndOfFile; the sources are one line).  *)

Tk(type) == Token_new(TokenType(type), 0)
Num(n) == Token_new(Number(n), 0)
Id(name) == Token_new(Identifier(name), 0)

\* 1;    1 == 2;    1 + 2;
StmtNumber == <<Num(1), Tk("Semicolon")>>
StmtCompare == <<Num(1), Tk("EqualsEquals"), Num(2), Tk("Semicolon")>>
StmtAdd == <<Num(1), Tk("Plus"), Num(2), Tk("Semicolon")>>
\* var a = 3;    a;    a = a - 1;
StmtVar == <<Tk("Var"), Id("a"), Tk("Equals"), Num(3), Tk("Semicolon")>>
StmtRead == <<Id("a"), Tk("Semicolon")>>
StmtAssign ==
    <<Id("a"), Tk("Equals"), Id("a"), Tk("Minus"), Num(1), Tk("Semicolon")>>
\* if (1) 2;    if (1 != 5) 3;    if (1 == 2) 5; else 9;
StmtIfNumber ==
    <<Tk("If"), Tk("LeftParen"), Num(1), Tk("RightParen"), Num(2),
      Tk("Semicolon")>>
StmtIf ==
    <<Tk("If"), Tk("LeftParen"), Num(1), Tk("NotEquals"), Num(5),
      Tk("RightParen"), Num(3), Tk("Semicolon")>>
StmtIfElse ==
    <<Tk("If"), Tk("LeftParen"), Num(1), Tk("EqualsEquals"), Num(2),
      Tk("RightParen"), Num(5), Tk("Semicolon"), Tk("Else"), Num(9),
      Tk("Semicolon")>>
\* while (a != 0) { a = a - 1; }    while (1 == 1) 2;    while (1) 2;
StmtWhile ==
    <<Tk("While"), Tk("LeftParen"), Id("a"), Tk("NotEquals"), Num(0),
      Tk("RightParen"), Tk("LeftBrace")>> \o StmtAssign
        \o <<Tk("RightBrace")>>
StmtWhileCompare ==
    <<Tk("While"), Tk("LeftParen"), Num(1), Tk("EqualsEquals"), Num(1),
      Tk("RightParen"), Num(2), Tk("Semicolon")>>
StmtWhileNumber ==
    <<Tk("While"), Tk("LeftParen"), Num(1), Tk("RightParen"), Num(2),
      Tk("Semicolon")>>
\* 1 or 2;    1 and 2;
StmtOr == <<Num(1), Tk("Or"), Num(2), Tk("Semicolon")>>
StmtAnd == <<Num(1), Tk("And"), Num(2), Tk("Semicolon")>>
\* if (1 != 1 or 3 == 3) 8;    if (2 == 2 and 4 == 4) 5;
StmtIfOr ==
    <<Tk("If"), Tk("LeftParen"), Num(1), Tk("NotEquals"), Num(1), Tk("Or"),
      Num(3), Tk("EqualsEquals"), Num(3), Tk("RightParen"), Num(8),
      Tk("Semicolon")>>
StmtIfAnd ==
    <<Tk("If"), Tk("LeftParen"), Num(2), Tk("EqualsEquals"), Num(2),
      Tk("And"), Num(4), Tk("EqualsEquals"), Num(4), Tk("RightParen"),
      Num(5), Tk("Semicolon")>>
\* { var b = 4; }
StmtBlock ==
    <<Tk("LeftBrace"), Tk("Var"), Id("b"), Tk("Equals"), Num(4),
      Tk("Semicolon"), Tk("RightBrace")>>
\* fn f(x, y) { x + y; }    f(1, 2);
StmtFn ==
    <<Tk("Fn"), Id("f"), Tk("LeftParen"), Id("x"), Tk("Comma"), Id("y"),
      Tk("RightParen"), Tk("LeftBrace"), Id("x"), Tk("Plus"), Id("y"),
      Tk("Semicolon"), Tk("RightBrace")>>
StmtCall ==
    <<Id("f"), Tk("LeftParen"), Num(1), Tk("Comma"), Num(2),
      Tk("RightParen"), Tk("Semicolon")>>
\* I = 5;    DT = 3;    DT;    ST = 3;    RAND(7);    KEY();    DRAW(1, 2, 3);
StmtI == <<Tk("I"), Tk("Equals"), Num(5), Tk("Semicolon")>>
StmtDTWrite == <<Tk("DT"), Tk("Equals"), Num(3), Tk("Semicolon")>>
StmtDTRead == <<Tk("DT"), Tk("Semicolon")>>
StmtST == <<Tk("ST"), Tk("Equals"), Num(3), Tk("Semicolon")>>
StmtRand ==
    <<Tk("Rand"), Tk("LeftParen"), Num(7), Tk("RightParen"),
      Tk("Semicolon")>>
StmtKey ==
    <<Tk("Key"), Tk("LeftParen"), Tk("RightParen"), Tk("Semicolon")>>
StmtDraw ==
    <<Tk("Draw"), Tk("LeftParen"), Num(1), Tk("Comma"), Num(2), Tk("Comma"),
      Num(3), Tk("RightParen"), Tk("Semicolon")>>

CompilerStatements ==
    { StmtNumber, StmtCompare, StmtAdd, StmtVar, StmtRead, StmtAssign,
      StmtIfNumber, StmtIf, StmtIfElse, StmtWhile, StmtWhileCompare,
      StmtWhileNumber, StmtOr, StmtAnd, StmtIfOr, StmtIfAnd, StmtBlock,
      StmtFn, StmtCall, StmtI, StmtDTWrite, StmtDTRead, StmtST, StmtRand,
      StmtKey, StmtDraw }

\* The sources of at most n of these statements
RECURSIVE StatementLists(_)
StatementLists(n) ==
    IF n = 0 THEN { <<>> }
    ELSE LET shorter == StatementLists(n - 1) IN
         shorter \cup { s \o t : s \in shorter, t \in CompilerStatements }

CompilerPrograms ==
    { source \o <<Tk("EndOfFile")>> : source \in StatementLists(MaxStatements) }

\* Programs with number literals at and beyond the ends of the operand
\* ranges:  n;   I = n;   DRAW(1, 2, n);   RAND(n);
StmtNumberOf(n) == <<Num(n), Tk("Semicolon")>>
StmtIOf(n) == <<Tk("I"), Tk("Equals"), Num(n), Tk("Semicolon")>>
StmtDrawOf(n) ==
    <<Tk("Draw"), Tk("LeftParen"), Num(1), Tk("Comma"), Num(2), Tk("Comma"),
      Num(n), Tk("RightParen"), Tk("Semicolon")>>
StmtRandOf(n) ==
    <<Tk("Rand"), Tk("LeftParen"), Num(n), Tk("RightParen"),
      Tk("Semicolon")>>

LiteralStatements ==
    { StmtNumberOf(n) : n \in {0, 255, 256, 65535} }
        \cup { StmtIOf(n) : n \in {0, 4095, 4096, 5000} }
        \cup { StmtDrawOf(n) : n \in {0, 1, 15, 16} }
        \cup { StmtRandOf(n) : n \in {255, 300} }
        \cup { StmtVar, StmtIf, StmtFn, StmtCall }

RECURSIVE LiteralLists(_)
LiteralLists(n) ==
    IF n = 0 THEN { <<>> }
    ELSE LET shorter == LiteralLists(n - 1) IN
         shorter \cup { s \o t : s \in shorter, t \in LiteralStatements }

LiteralPrograms ==
    { source \o <<Tk("EndOfFile")>> : source \in LiteralLists(MaxLiterals) }

\* Programs that keep many registers live: `var a = 3;` k times, then one
\* statement that needs temporaries (or none).
RECURSIVE Repeat(_, _)
Repeat(stmt, k) == IF k = 0 THEN <<>> ELSE stmt \o Repeat(stmt, k - 1)
\* 1 == 2 + 3;
StmtDeep ==
    <<Num(1), Tk("EqualsEquals"), Num(2), Tk("Plus"), Num(3),
      Tk("Semicolon")>>
RegisterTails ==
    { <<>>, StmtNumber, StmtAdd, StmtDeep, StmtRead, StmtAssign, StmtIf,
      StmtFn, StmtRand, StmtKey, StmtDTRead, StmtDraw }
RegisterPrograms ==
    { Repeat(StmtVar, k) \o tail \o <<Tk("EndOfFile")>> :
        k \in 0..MaxVars, tail \in RegisterTails }

\* Programs with an if statement on a comparison, to be run:
\*   var r = 0; if (A op B) r = 5; [else r = 9;] 7;
\* A is a number or r, B a number.
StmtVarR == <<Tk("Var"), Id("r"), Tk("Equals"), Num(0), Tk("Semicolon")>>
StmtSetR(n) == <<Id("r"), Tk("Equals"), Num(n), Tk("Semicolon")>>
Comparison(a, op, b) == <<a, Tk(op), b>>
IfOn(cond, with_else) ==
    StmtVarR \o <<Tk("If"), Tk("LeftParen")>> \o cond \o <<Tk("RightParen")>>
        \o StmtSetR(5)
        \o (IF with_else THEN <<Tk("Else")>> \o StmtSetR(9) ELSE <<>>)
        \o StmtNumberOf(7) \o <<Tk("EndOfFile")>>
ComparisonOps == {"EqualsEquals", "NotEquals"}
IfPrograms ==
    { IfOn(Comparison(a, op, Num(b)), with_else) :
        a \in {Num(0), Num(1), Num(255), Id("r")}, op \in ComparisonOps,
        b \in {0, 1, 255}, with_else \in BOOLEAN }

\* The counting loop, to be run: var a = N; while (a != 0) { a = a - 1; }
WhileCounts == {0, 1, 2, 3, 128, 255}
WhileOf(n) ==
    <<Tk("Var"), Id("a"), Tk("Equals"), Num(n), Tk("Semicolon"),
      Tk("While"), Tk("LeftParen"), Id("a"), Tk("NotEquals"), Num(0),
      Tk("RightParen"), Tk("LeftBrace"),
      Id("a"), Tk("Equals"), Id("a"), Tk("Minus"), Num(1), Tk("Semicolon"),
      Tk("RightBrace"), Tk("EndOfFile")>>
WhilePrograms == { WhileOf(n) : n \in WhileCounts }

\* Programs whose if or while condition is a chain of comparisons joined by
\* and / or, to be run:
\*   var r = 0; if (c1 k1 c2 [k2 c3]) r = 5; 7;      ci on numbers
\*   var r = 0; while (r op 0 k1 c2) r = 5; 7;
NumberComparisons ==
    { Comparison(Num(1), op, Num(b)) : op \in ComparisonOps, b \in {1, 2} }
VarComparisons == { Comparison(Id("r"), op, Num(0)) : op \in ComparisonOps }
Connectives == {"And", "Or"}
\* chains of two comparisons take every comparison, longer ones those on ==
EqualsComparisons == { Comparison(Num(1), "EqualsEquals", Num(b)) : b \in {1, 2} }
RECURSIVE ChainsOf(_, _)
ChainsOf(n, comparisons) ==
    IF n = 1 THEN comparisons
    ELSE { c \o <<Tk(k)>> \o d :
             c \in comparisons, k \in Connectives,
             d \in ChainsOf(n - 1, comparisons) }
Chains(n) ==
    IF n = 2 THEN ChainsOf(2, NumberComparisons)
    ELSE ChainsOf(n, EqualsComparisons)
LogicOn(keyword, cond) ==
    StmtVarR \o <<Tk(keyword), Tk("LeftParen")>> \o cond
        \o <<Tk("RightParen")>> \o StmtSetR(5) \o StmtNumberOf(7)
        \o <<Tk("EndOfFile")>>
LogicIfPrograms ==
    { LogicOn("If", cond) : cond \in UNION { Chains(n) : n \in 2..MaxChain } }
LogicWhilePrograms ==
    { LogicOn("While", c \o <<Tk(k)>> \o d) :
        c \in VarComparisons, k \in Connectives, d \in NumberComparisons }
LogicPrograms == LogicIfPrograms \cup LogicWhilePrograms

\* Programs with a block: declarations of a, r, then { ... }, then nothing or
\* var c = 7;
VarOf(name, n) ==
    <<Tk("Var"), Id(name), Tk("Equals"), Num(n), Tk("Semicolon")>>
Braces(body) == <<Tk("LeftBrace")>> \o body \o <<Tk("RightBrace")>>
OuterNames == <<"a", "r">>
RECURSIVE OuterVars(_)
OuterVars(k) ==
    IF k = 0 THEN <<>> ELSE OuterVars(k - 1) \o VarOf(OuterNames[k], k)
\* b = b + 1;    if (b == 4) b = 5;    while (b != 0) { b = b - 1; }
StmtStepB(op) ==
    <<Id("b"), Tk("Equals"), Id("b"), Tk(op), Num(1), Tk("Semicolon")>>
StmtIfB ==
    <<Tk("If"), Tk("LeftParen"), Id("b"), Tk("EqualsEquals"), Num(4),
      Tk("RightParen"), Id("b"), Tk("Equals"), Num(5), Tk("Semicolon")>>
StmtWhileB ==
    <<Tk("While"), Tk("LeftParen"), Id("b"), Tk("NotEquals"), Num(0),
      Tk("RightParen")>> \o Braces(StmtStepB("Minus"))
\* fn f(x) { x; }
StmtFnX ==
    <<Tk("Fn"), Id("f"), Tk("LeftParen"), Id("x"), Tk("RightParen")>>
        \o Braces(<<Id("x"), Tk("Semicolon")>>)
\* Block bodies of declarations, assignments, arithmetic, if / while on a
\* comparison and inner blocks
BalancedBodies ==
    { <<>>,
      VarOf("b", 4),
      VarOf("b", 4) \o VarOf("d", 5),
      VarOf("b", 4) \o Braces(VarOf("e", 6)),
      VarOf("b", 4) \o StmtStepB("Plus"),
      VarOf("b", 4) \o StmtIfB,
      VarOf("b", 4) \o StmtWhileB,
      VarOf("a", 4),
      StmtAdd \o VarOf("b", 4) }
\* Block bodies with a comparison as a statement, an if on a number, a
\* function with a parameter
OtherBodies ==
    { VarOf("b", 4) \o StmtCompare,
      VarOf("b", 4) \o StmtIfNumber,
      VarOf("b", 4) \o StmtFnX }
BlockProgramsOf(bodies) ==
    { OuterVars(k) \o Braces(body) \o tail \o <<Tk("EndOfFile")>> :
        k \in 0..MaxOuter, body \in bodies, tail \in {<<>>, VarOf("c", 7)} }
BalancedBlockPrograms == BlockProgramsOf(BalancedBodies)
BlockPrograms == BlockProgramsOf(BalancedBodies \cup OtherBodies)

\* Programs with a function declaration after the declarations of a, r:
\*   fn f(params) { body }   followed by nothing, var c = 7; or r;
\* at the top level or inside a block.
RECURSIVE ParamList(_)
ParamList(names) ==
    IF names = <<>> THEN <<>>
    ELSE IF Len(names) = 1 THEN <<Id(names[1])>>
    ELSE <<Id(names[1]), Tk("Comma")>> \o ParamList(Tail(names))
FnOf(names, body) ==
    <<Tk("Fn"), Id("f"), Tk("LeftParen")>> \o ParamList(names)
        \o <<Tk("RightParen")>> \o Braces(body)
FnParams == { <<>>, <<"x">>, <<"x", "y">>, <<"r">> }
FnBodies == { <<>>, VarOf("b", 4) }
FnTails == { <<>>, VarOf("c", 7), <<Id("r"), Tk("Semicolon")>> }
FnPrograms ==
    { OuterVars(k)
        \o (IF in_block THEN Braces(FnOf(names, body)) ELSE FnOf(names, body))
        \o tail \o <<Tk("EndOfFile")>> :
        k \in 0..MaxOuter, names \in FnParams, body \in FnBodies,
        tail \in FnTails, in_block \in BOOLEAN }

---------------------------------------------------------------------------
(* assembler.rs *)

\* v << n on a u16: the bits shifted past bit 15 are lost.
Shl16(v, n) == (v * 2^n) % 65536

Assembler_new(asm) == [asm |-> asm, binary_u16 |-> <<>>, binary |-> <<>>]

opcode_to_u16(o) ==
    CASE o.op = "LDRegByte" -> BitOr(BitOr(Shl16(6, 12), Shl16(o.a, 8)), o.b)
      [] o.op = "LDRegReg" ->
            BitOr(BitOr(BitOr(Shl16(8, 12), Shl16(o.a, 8)), Shl16(o.b, 4)), 0)
      [] o.op = "AddRegReg" ->
            BitOr(BitOr(BitOr(Shl16(8, 12), Shl16(o.a, 8)), Shl16(o.b, 4)), 4)
      [] o.op = "SubRegReg" ->
            BitOr(BitOr(BitOr(Shl16(8, 12), Shl16(o.a, 8)), Shl16(o.b, 4)), 5)
      [] o.op = "SERegReg" ->
            BitOr(BitOr(BitOr(Shl16(5, 12), Shl16(o.a, 8)), Shl16(o.b, 4)), 0)
      [] o.op = "SNERegReg" ->
            BitOr(BitOr(BitOr(Shl16(9, 12), Shl16(o.a, 8)), Shl16(o.b, 4)), 0)
      [] o.op = "LDFReg" -> BitOr(BitOr(Shl16(15, 12), Shl16(o.a, 8)), \H29)
      [] o.op = "LDIReg" -> BitOr(BitOr(Shl16(15, 12), Shl16(o.a, 8)), \H55)
      [] o.op = "LDRegI" -> BitOr(BitOr(Shl16(15, 12), Shl16(o.a, 8)), \H65)
      [] o.op = "LDDTReg" -> BitOr(BitOr(Shl16(15, 12), Shl16(o.a, 8)), \H15)
      [] o.op = "LDRegDT" -> BitOr(BitOr(Shl16(15, 12), Shl16(o.a, 8)), \H07)
      [] o.op = "LDSTReg" -> BitOr(BitOr(Shl16(15, 12), Shl16(o.a, 8)), \H18)
      [] o.op = "LDRegKey" -> BitOr(BitOr(Shl16(15, 12), Shl16(o.a, 8)), \H0A)
      [] o.op = "LDIAddr" -> BitOr(Shl16(10, 12), o.a)
      [] o.op = "RNDRegByte" -> BitOr(BitOr(Shl16(12, 12), Shl16(o.a, 8)), o.b)
      [] o.op = "DRWRegRegNibble" ->
            BitOr(BitOr(BitOr(Shl16(13, 12), Shl16(o.a, 8)), Shl16(o.b, 4)), o.c)
      [] o.op = "JP" -> BitOr(Shl16(1, 12), o.a)
      [] o.op = "CALL" -> BitOr(Shl16(2, 12), o.a)
      [] o.op = "RET" -> \H00EE

\* Variant: the low byte comes first.
to_be_bytes_LowFirst(w) == <<w % 256, w \div 256>>

\* u16::to_be_bytes
to_be_bytes(w) == <<w \div 256, w % 256>>

\* for cur in asm: push the word onto binary_u16 and its two bytes onto
\* binary.  Word k of asm gives bytes 2k - 1 and 2k.
assemble(a0) ==
    (CHOOSE it \in {
         [a EXCEPT
            !.binary_u16 =
                @ \o [k \in 1..Len(a.asm) |-> opcode_to_u16(a.asm[k])],
            !.binary =
                @ \o [k \in 1..(2 * Len(a.asm)) |->
                         to_be_bytes(opcode_to_u16(a.asm[(k + 1) \div 2]))
                             [2 - (k % 2)]]]
       : a \in { a0 } } : TRUE)

\* The symbolic programs handed to the assembler: three loads that give
\* V0, V1 and VF distinct values, then one opcode with operands at the
\* ends of their ranges; and RET alone.
AsmRegs == {0, 1, 15}
AsmBytes == {0, 255}
AsmNibbles == {0, 15}
AsmAddrs == {0, \H208, \HFFF}
AsmOps ==
    { LDRegByte(r, k) : r \in AsmRegs, k \in AsmBytes }
    \cup { LDRegReg(r1, r2) : r1 \in AsmRegs, r2 \in AsmRegs }
    \cup { AddRegReg(r1, r2) : r1 \in AsmRegs, r2 \in AsmRegs }
    \cup { SubRegReg(r1, r2) : r1 \in AsmRegs, r2 \in AsmRegs }
    \cup { SERegReg(r1, r2) : r1 \in AsmRegs, r2 \in AsmRegs }
    \cup { SNERegReg(r1, r2) : r1 \in AsmRegs, r2 \in AsmRegs }
    \cup { LDFReg(r) : r \in AsmRegs } \cup { LDIReg(r) : r \in AsmRegs }
    \cup { LDRegI(r) : r \in AsmRegs } \cup { LDDTReg(r) : r \in AsmRegs }
    \cup { LDRegDT(r) : r \in AsmRegs } \cup { LDSTReg(r) : r \in AsmRegs }
    \cup { LDRegKey(r) : r \in AsmRegs }
    \cup { LDIAddr(n) : n \in AsmAddrs }
    \cup { RNDRegByte(r, k) : r \in AsmRegs, k \in AsmBytes }
    \cup { DRWRegRegNibble(r1, r2, n) :
              r1 \in AsmRegs, r2 \in AsmRegs, n \in AsmNibbles }
    \cup { JP(n) : n \in AsmAddrs } \cup { CALL(n) : n \in AsmAddrs }
    \cup { RET }
AsmPrograms ==
    { <<LDRegByte(0, 200), LDRegByte(1, 100), LDRegByte(15, 3), o>> :
        o \in AsmOps }
    \cup { <<RET>> }

\* The bytes the assembler produces for them
AsmImages == { assemble(Assembler_new(p)).binary : p \in AsmPrograms }

---------------------------------------------------------------------------
(* The ROM images the host loads *)

\* The bytes of a program given as 16-bit words, high byte first.
Bytes(ws) ==
    [i \in 1..(2 * Len(ws)) |->
        IF i % 2 = 1 THEN ws[(i + 1) \div 2] \div 256 ELSE ws[i \div 2] % 256]

\* CALL 202; RET (tests::test_00EE)
RomCallRet == Bytes(<<\H2202, \H00EE>>)
\* 200: CALL 206; 202: JP 202; 206: CALL 20A; 208: RET; 20A: RET
RomNested == Bytes(<<\H2206, \H1202, \H0000, \H220A, \H00EE, \H00EE>>)
\* RET on an empty stack
RomRetEmpty == Bytes(<<\H00EE>>)
\* 200: CALL 200, until the stack is full
RomCallSelf == Bytes(<<\H2200>>)
\* JP FFE, then the zero word at the last address
RomRunOff == Bytes(<<\H1FFE>>)
\* LD V0, FF; JP V0, FFF
RomJumpV0 == Bytes(<<\H60FF, \HBFFF>>)
\* LD V0,5; LD DT,V0; LD V1,DT; LD ST,V3 (0); LD ST,V0; 20A: LD V2,DT; JP 20A
RomTimers == Bytes(<<\H6005, \HF015, \HF107, \HF318, \HF018, \HF207, \H120A>>)
\* LD V0,5; LD DT,V0; LD V3,9; 206: LD V3,K; JP 206
RomKeyWait == Bytes(<<\H6005, \HF015, \H6309, \HF30A, \H1206>>)
\* LD V0,F; SKP V0; SKNP V0; LD V0,10; SKP V0
RomKeySkip == Bytes(<<\H600F, \HE09E, \HE0A1, \H6010, \HE09E>>)
\* Words no table entry serves: 8xy8, Fx with low byte FF, 0nnF
RomUnknown8 == Bytes(<<\H8008>>)
RomUnknownF == Bytes(<<\HF0FF>>)
RomUnknown0 == Bytes(<<\H000F>>)
\* RND V0,03; CLS
RomRandom == Bytes(<<\HC003, \H00E0>>)
\* A full image (3584 bytes): JP FFC at 200, SE V0,00 at FFC, zero elsewhere
RomFull ==
    [i \in 1..(RamSize - RomBase) |->
        IF i = 1 THEN 31 ELSE IF i = 2 THEN 252
        ELSE IF i = RamSize - RomBase - 3 THEN 48 ELSE 0]
\* One byte more than the RAM above 0x200 holds
RomTooBig == [i \in 1..(RamSize - RomBase + 1) |-> 0]

Roms ==
    { <<>>, RomCallRet, RomNested, RomRetEmpty, RomCallSelf, RomRunOff,
      RomJumpV0, RomTimers, RomKeySkip, RomUnknown8, RomUnknownF,
      RomUnknown0, RomRandom, RomFull, RomTooBig }

\* Programs that read the keypad
KeyRoms == { RomKeyWait, RomKeySkip }

\* 200: LD V0,x; LD V1,y; LD I,addr; 206: DRW V0,V1,n; LD V0,x2;
\* DRW V0,V1,n; JP 206
DrawRom(x, y, addr, n, x2) ==
    Bytes(<<\H6000 + x, \H6100 + y, \HA000 + addr, \HD010 + n,
            \H6000 + x2, \HD010 + n, \H1206>>)
\* LD VF,5; LD V1,0; LD I,000; DRW VF,V1,5; DRW VF,V1,5; DRW V1,VF,5
RomDrawVF == Bytes(<<\H6F05, \H6100, \HA000, \HDF15, \HDF15, \HD1F5>>)

DrawXs == {0, 60, 255}
DrawYs == {0, 30, 255}
DrawAddrs == {0, \HFFD}
DrawHeights == {0, 5, 15}

DrawRoms ==
    { DrawRom(x, y, addr, n, (x + 2) % 256) :
        x \in DrawXs, y \in DrawYs, addr \in DrawAddrs, n \in DrawHeights }
    \cup { RomDrawVF }

\* LD I,000; 202: DRW V0,V0,5; CLS; LD V0,3E; JP 202
RomDrawCls == Bytes(<<\HA000, \HD005, \H00E0, \H603E, \H1202>>)
\* LD V0,3C; LD V1,1E; LD I,019; 206: DRW V0,V1,5; JP 206
RomDrawWrap == Bytes(<<\H603C, \H611E, \HA019, \HD015, \H1206>>)

SnapRoms == { RomDrawCls, RomDrawWrap, RomCallRet }

\* LD V0,a; LD V1,b; then one instruction on V0 and V1
AluRom(a, b, word) == Bytes(<<\H6000 + a, \H6100 + b, word>>)
AluBytes == {0, 1, 128, 255}
\* SUB V0,V1; SUBN V0,V1
AluWords == {\H8015, \H8017}

AluRoms == { AluRom(a, b, w) : a \in AluBytes, b \in AluBytes, w \in AluWords }

\* LD VF,7; LD V0,a; ADD V0,kk
AddRom(a, kk) == Bytes(<<\H6F07, \H6000 + a, \H7000 + kk>>)
\* LD VF,a; ADD VF,kk
AddRomVF(a, kk) == Bytes(<<\H6F00 + a, \H7F00 + kk>>)
\* LD V0,a; LD F,V0
FontRom(a) == Bytes(<<\H6000 + a, \HF029>>)
FontDigits == {0, 15, 51, 52, 255}
\* LD I,FFF; LD V0,FF; ADD I,V0
RomIndexAdd == Bytes(<<\HAFFF, \H60FF, \HF01E>>)
\* LD I,FFF; LD [I],V0
RomIndexStore == Bytes(<<\HAFFF, \HF055>>)
\* LD I,FFF; LD V0,[I]
RomIndexLoad == Bytes(<<\HAFFF, \HF065>>)
\* LD I,FFE; LD [I],V1 then LD V1,[I]: the block ends at the last address
RomIndexEdge == Bytes(<<\HAFFE, \HF155, \HAFFE, \HF165>>)

RegRoms ==
    { AddRom(a, kk) : a \in AluBytes, kk \in AluBytes }
    \cup { AddRomVF(a, kk) : a \in {1, 255}, kk \in {1, 255} }
    \cup { FontRom(a) : a \in FontDigits }
    \cup { RomIndexAdd, RomIndexStore, RomIndexLoad, RomIndexEdge }

\* LD I,FFF; LD V0,FF; ADD I,V0 240 times; LD V0,EF; ADD I,V0 (I = FFFE);
\* LD B,V0
RomIndexWrap ==
    Bytes([i \in 1..245 |->
             IF i = 1 THEN \HAFFF
             ELSE IF i = 2 THEN \H60FF
             ELSE IF i <= 242 THEN \HF01E
             ELSE IF i = 243 THEN \H60EF
             ELSE IF i = 244 THEN \HF01E
             ELSE \HF033])
\* LD I,FFE; LD B,V0: the ones digit falls one past the last address
RomBcdEdge == Bytes(<<\HAFFE, \HF033>>)
\* LD V0,7; LD V1,9; LD I,FFF; LD [I],V1
RomStoreEdge == Bytes(<<\H6007, \H6109, \HAFFF, \HF155>>)
\* LD I,FFF; LD V1,[I]
RomLoadEdge == Bytes(<<\HAFFF, \HF165>>)

\* Programs that reach past the last RAM address or the last key
BoundsRoms ==
    { RomIndexWrap, RomBcdEdge, RomStoreEdge, RomLoadEdge, RomRunOff,
      RomKeySkip, DrawRom(0, 0, \HFFD, 5, 2) }

\* Programs run between a snapshot and its restore
RestoreRoms == { RomDrawWrap, RomCallRet }

\* Images the host disassembles.  The sampled words are those with x = 0 or
\* x = A, of every family and every low byte; a page is a full image (1792
\* words) of consecutive sampled words.  A word whose low nibble (families
\* 0, 8, E) or low byte (family F) is an index beyond its table is replaced
\* by 0000 in a page, and some of them are loaded as one-word images.
DisasmPageWords == (RamSize - RomBase) \div 2
DisasmSamples == 16 * 2 * 256
BeyondTable(w) ==
    \/ Family(w) \in {0, 8, 14} /\ FieldN(w) = 15
    \/ Family(w) = 15 /\ FieldKK(w) > \H65
SampleWord(n) ==
    (n \div 512) * 4096 + (IF (n \div 256) % 2 = 0 THEN 0 ELSE 10) * 256
        + (n % 256)
PageWord(k, j) ==
    LET n == DisasmPageWords * k + j IN
    IF n >= DisasmSamples \/ BeyondTable(SampleWord(n)) THEN 0
    ELSE SampleWord(n)
DisasmPage(k) ==
    [i \in 1..(RamSize - RomBase) |->
        IF i % 2 = 1 THEN PageWord(k, (i - 1) \div 2) \div 256
        ELSE PageWord(k, (i - 1) \div 2) % 256]
DisasmPages ==
    { DisasmPage(k) : k \in 0..((DisasmSamples - 1) \div DisasmPageWords) }
DisasmBeyondWords ==
    { f * 4096 + 10 * 256 + kk :
        f \in {0, 8, 14, 15}, kk \in {\H0F, \H66, \H6F, \H9E, \HA1, \HFF} }
\* JP 55D (tests::test_disasm_1nnn)
RomDisasmJump == <<\H15, \H5D>>
\* LD V0,12; the 8xy word with low nibble F
RomDisasmLate == Bytes(<<\H6012, \H800F>>)
\* LD V0,12; LD I,206; LD [I],V0: the program writes 12 to RAM[206]
RomDisasmStore == Bytes(<<\H6012, \HA206, \HF055>>)
\* The programs the host runs before it disassembles
DisasmRunRoms == { RomDisasmJump, RomDisasmLate, RomDisasmStore }
DisasmRoms ==
    DisasmPages
        \cup { Bytes(<<w>>) : w \in DisasmBeyondWords }
        \cup { RomDisasmJump, RomDisasmLate, RomDisasmStore, RomFull }

\* DRW V0,V0,5 (the glyph 0 at the top left), then a word 0nn0 and unwritten
\* RAM; and DRW V0,V0,5; JP FFA, which runs off the end of the RAM
ZeroWords == {\H0000, \H0010, \H00E0, \H0120, \H0AB0, \H0FF0}
RomRunsOffEnd == Bytes(<<\HD005, \H1FFA>>)
ZeroRoms == { Bytes(<<\HD005, w>>) : w \in ZeroWords } \cup { <<>>, RomRunsOffEnd }

\* LD V0,v; LD DT,V0; LD V1,u; LD ST,V1; LD V3,K; JP 20A: both timers are
\* set once, at ticks 2 and 4, then the program waits for a key and, once it
\* got one, stays on the jump to itself.
RomRunOut(v, u) == Bytes(<<\H6000 + v, \HF015, \H6100 + u, \HF118, \HF30A, \H120A>>)
\* LD V0,3; LD DT,V0; LD ST,V0; JP 202: both timers are set again and again.
RomRearm == Bytes(<<\H6003, \HF015, \HF018, \H1202>>)
TimerValues == {2, 255}
RunOutRoms == { RomRunOut(v, u) : v \in TimerValues, u \in TimerValues }
TimerRoms == RunOutRoms \cup { RomRearm }

AllRoms ==
    Roms \cup KeyRoms \cup DrawRoms \cup SnapRoms \cup AluRoms \cup RegRoms
        \cup BoundsRoms \cup AsmImages \cup DisasmRoms \cup ZeroRoms
        \cup TimerRoms

---------------------------------------------------------------------------
(* reset and load *)

\* The arrays reset() leaves: all zero, and the RAM with the fontset written
\* to addresses 0..79 after it was zeroed.
ZeroRegisters == [i \in 0..15 |-> 0]
ZeroFramebuffer == [i \in 0..(VideoWidth * VideoHeight - 1) |-> 0]
FontRam == [i \in 0..(RamSize - 1) |-> IF i < 80 THEN Fontset[i + 1] ELSE 0]

\* Variant: the registers are not cleared.
reset_KeepsRegisters(m) ==
    [ m EXCEPT
        !.pc = RomBase,
        !.opcode = 0,
        !.I = 0,
        !.sp = 0,
        !.delay_timer = 0,
        !.sound_timer = 0,
        !.ram = FontRam,
        !.stack = ZeroRegisters,
        !.framebuffer = ZeroFramebuffer,
        !.keys = ZeroRegisters ]

reset(m) ==
    [ m EXCEPT
        !.pc = RomBase,
        !.opcode = 0,
        !.I = 0,
        !.sp = 0,
        !.delay_timer = 0,
        !.sound_timer = 0,
        !.ram = FontRam,
        !.stack = ZeroRegisters,
        !.V = ZeroRegisters,
        !.framebuffer = ZeroFramebuffer,
        !.keys = ZeroRegisters ]

\* dst[0x200..0x200+len].clone_from_slice(buffer)
CopyIntoRam(ram, buffer) ==
    [i \in 0..(RamSize - 1) |->
        IF i >= RomBase /\ i < RomBase + Len(buffer)
        THEN buffer[i - RomBase + 1] ELSE ram[i]]

\* The images the host loads are fixed, so the copy of each into a freshly
\* reset RAM is computed once and looked up.
LoadedImages == [b \in AllRoms |-> CopyIntoRam(FontRam, b)]

\* ram[0x200..0x200+len].clone_from_slice(buffer): the slice panics when it
\* would end beyond the RAM, after reset() has run.
load_rom_from_bytes(m, buffer) ==
    LET r == reset(m) IN
    IF RomBase + Len(buffer) > RamSize THEN Panic(r)
    ELSE [ r EXCEPT !.ram =
             IF r.ram = FontRam /\ buffer \in DOMAIN LoadedImages
             THEN LoadedImages[buffer]
             ELSE CopyIntoRam(r.ram, buffer) ]

\* Chip8::load_rom_from_assembler: reset, then the assembler's bytes are
\* copied to 0x200; a slice that does not fit in RAM panics.
load_rom_from_assembler(m, a) ==
    LET r == reset(m) IN
    IF RomBase + Len(a.binary) > RamSize THEN Panic(r)
    ELSE [ r EXCEPT !.ram =
             IF r.ram = FontRam /\ a.binary \in DOMAIN LoadedImages
             THEN LoadedImages[a.binary]
             ELSE CopyIntoRam(r.ram, a.binary) ]

---------------------------------------------------------------------------
(* The instructions.  Each takes the machine after the fetch (opcode set,  *)
(* pc already advanced by 2) and yields the machine after the handler.     *)

OP_null(m) == Panic(m)

OP_00E0(m) == [m EXCEPT !.framebuffer = ZeroFramebuffer]

\* sp -= 1 (u8), then stack[sp] (a 16-entry array, bounds checked).
OP_00EE(m) ==
    LET raw == m.sp - 1 IN
    IF TrapsU8(raw) THEN Panic(m)
    ELSE LET sp1 == WrapU8(raw) IN
         IF sp1 > 15 THEN Panic([m EXCEPT !.sp = sp1])
         ELSE [m EXCEPT !.sp = sp1, !.pc = m.stack[sp1]]

OP_1nnn(m) == [m EXCEPT !.pc = FieldNNN(m.opcode)]

\* Variant: the address pushed is that of the CALL itself.
OP_2nnn_PushesCallSite(m) ==
    IF m.sp > 15 THEN Panic(m)
    ELSE [m EXCEPT !.stack[m.sp] = m.pc - 2,
                   !.sp = m.sp + 1,
                   !.pc = FieldNNN(m.opcode)]

\* stack[sp] = pc panics on sp > 15 before sp is incremented.
OP_2nnn(m) ==
    IF m.sp > 15 THEN Panic(m)
    ELSE IF TrapsU8(m.sp + 1) THEN Panic([m EXCEPT !.stack[m.sp] = m.pc])
    ELSE [m EXCEPT !.stack[m.sp] = m.pc,
                   !.sp = WrapU8(m.sp + 1),
                   !.pc = FieldNNN(m.opcode)]

\* pc += 2 on a skip (u16).
Skip(m) ==
    IF TrapsU16(m.pc + 2) THEN Panic(m) ELSE [m EXCEPT !.pc = WrapU16(m.pc + 2)]

OP_3xkk(m) ==
    IF m.V[FieldX(m.opcode)] = FieldKK(m.opcode) THEN Skip(m) ELSE m

OP_4xkk(m) ==
    IF m.V[FieldX(m.opcode)] # FieldKK(m.opcode) THEN Skip(m) ELSE m

OP_5xy0(m) ==
    IF m.V[FieldX(m.opcode)] = m.V[FieldY(m.opcode)] THEN Skip(m) ELSE m

OP_6xkk(m) == [m EXCEPT !.V[FieldX(m.opcode)] = FieldKK(m.opcode)]

\* V[x] += kk (u8).
OP_7xkk(m) ==
    LET x == FieldX(m.opcode)
        raw == m.V[x] + FieldKK(m.opcode) IN
    IF TrapsU8(raw) THEN Panic(m) ELSE [m EXCEPT !.V[x] = WrapU8(raw)]

OP_9xy0(m) ==
    IF m.V[FieldX(m.opcode)] # m.V[FieldY(m.opcode)] THEN Skip(m) ELSE m

OP_Annn(m) == [m EXCEPT !.I = FieldNNN(m.opcode)]

\* (V[0] as u16) + nnn: at most 0xFF + 0xFFF, no overflow.
OP_Bnnn(m) == [m EXCEPT !.pc = m.V[0] + FieldNNN(m.opcode)]

\* rnd is the byte getrandom delivers.
OP_Cxkk(m, rnd) ==
    [m EXCEPT !.V[FieldX(m.opcode)] = BitAnd(rnd, FieldKK(m.opcode))]

OP_8xy0(m) == [m EXCEPT !.V[FieldX(m.opcode)] = m.V[FieldY(m.opcode)]]

OP_8xy1(m) ==
    [m EXCEPT !.V[FieldX(m.opcode)] =
        BitOr(m.V[FieldX(m.opcode)], m.V[FieldY(m.opcode)])]

OP_8xy2(m) ==
    [m EXCEPT !.V[FieldX(m.opcode)] =
        BitAnd(m.V[FieldX(m.opcode)], m.V[FieldY(m.opcode)])]

OP_8xy3(m) ==
    [m EXCEPT !.V[FieldX(m.opcode)] =
        BitXor(m.V[FieldX(m.opcode)], m.V[FieldY(m.opcode)])]

\* sum is a u16; VF is written first, V[x] after it.
OP_8xy4(m) ==
    LET x == FieldX(m.opcode)
        y == FieldY(m.opcode)
        sum == m.V[x] + m.V[y]
        V1 == [m.V EXCEPT ![15] = IF sum > 255 THEN 1 ELSE 0] IN
    [m EXCEPT !.V = [V1 EXCEPT ![x] = sum % 256]]

\* VF = (V[x] > V[y]); then V[x] -= V[y] on the registers as they are now.
OP_8xy5(m) ==
    LET x == FieldX(m.opcode)
        y == FieldY(m.opcode)
        V1 == [m.V EXCEPT ![15] = IF m.V[x] > m.V[y] THEN 1 ELSE 0]
        raw == V1[x] - V1[y]
        m1 == [m EXCEPT !.V = V1] IN
    IF TrapsU8(raw) THEN Panic(m1) ELSE [m1 EXCEPT !.V[x] = WrapU8(raw)]

OP_8xy6(m) ==
    LET x == FieldX(m.opcode)
        V1 == [m.V EXCEPT ![15] = m.V[x] % 2] IN
    [m EXCEPT !.V = [V1 EXCEPT ![x] = V1[x] \div 2]]

\* VF = (V[y] > V[x]); then V[x] = V[y] - V[x].
OP_8xy7(m) ==
    LET x == FieldX(m.opcode)
        y == FieldY(m.opcode)
        V1 == [m.V EXCEPT ![15] = IF m.V[y] > m.V[x] THEN 1 ELSE 0]
        raw == V1[y] - V1[x]
        m1 == [m EXCEPT !.V = V1] IN
    IF TrapsU8(raw) THEN Panic(m1) ELSE [m1 EXCEPT !.V[x] = WrapU8(raw)]

\* V[x] <<= 1 drops the top bit in every build.
OP_8xyE(m) ==
    LET x == FieldX(m.opcode)
        V1 == [m.V EXCEPT ![15] = (m.V[x] \div 128) % 2] IN
    [m EXCEPT !.V = [V1 EXCEPT ![x] = (V1[x] * 2) % 256]]

\* keys[key] is a 16-entry array, bounds checked.
OP_Ex9E(m) ==
    LET key == m.V[FieldX(m.opcode)] IN
    IF key > 15 THEN Panic(m)
    ELSE IF m.keys[key] > 0 THEN Skip(m) ELSE m

OP_ExA1(m) ==
    LET key == m.V[FieldX(m.opcode)] IN
    IF key > 15 THEN Panic(m)
    ELSE IF m.keys[key] = 0 THEN Skip(m) ELSE m

OP_Fx07(m) == [m EXCEPT !.V[FieldX(m.opcode)] = m.delay_timer]

\* Variant: the scan does not stop at the first pressed key, so the last wins.
OP_Fx0A_LastKey(m) ==
    LET pressed == {i \in 0..15 : m.keys[i] > 0} IN
    IF pressed # {}
    THEN [m EXCEPT !.V[FieldX(m.opcode)] =
             CHOOSE i \in pressed : \A j \in pressed : i >= j]
    ELSE [m EXCEPT !.pc = m.pc - 2]

\* The first pressed key in index order, or pc -= 2 when there is none.
OP_Fx0A(m) ==
    LET pressed == {i \in 0..15 : m.keys[i] > 0} IN
    IF pressed # {}
    THEN [m EXCEPT !.V[FieldX(m.opcode)] =
             CHOOSE i \in pressed : \A j \in pressed : i <= j]
    ELSE IF TrapsU16(m.pc - 2) THEN Panic(m)
    ELSE [m EXCEPT !.pc = (m.pc - 2) % 65536]

OP_Fx15(m) == [m EXCEPT !.delay_timer = m.V[FieldX(m.opcode)]]

OP_Fx18(m) == [m EXCEPT !.sound_timer = m.V[FieldX(m.opcode)]]

\* I += V[x] (u16).
OP_Fx1E(m) ==
    LET raw == m.I + m.V[FieldX(m.opcode)] IN
    IF TrapsU16(raw) THEN Panic(m) ELSE [m EXCEPT !.I = WrapU16(raw)]

\* (V[x] * 5) as u16: the product is a u8.
OP_Fx29(m) ==
    LET raw == m.V[FieldX(m.opcode)] * 5 IN
    IF TrapsU8(raw) THEN Panic(m) ELSE [m EXCEPT !.I = WrapU8(raw)]

\* write(I + 2, ones); write(I + 1, tens); write(I, hundreds).
OP_Fx33(m) ==
    LET val == m.V[FieldX(m.opcode)] IN
    IF TrapsU16(m.I + 2) THEN Panic(m)
    ELSE LET m1 == write(m, WrapU16(m.I + 2), val % 10) IN
         IF m1.panic THEN m1
         ELSE IF TrapsU16(m.I + 1) THEN Panic(m1)
         ELSE LET m2 == write(m1, WrapU16(m.I + 1), (val \div 10) % 10) IN
              IF m2.panic THEN m2
              ELSE write(m2, m.I, (val \div 100) % 10)

\* Variant: for i in 0..x, the register x itself is not stored.
RECURSIVE StoreRegs_Exclusive(_, _, _)
StoreRegs_Exclusive(m, x, i) ==
    IF i >= x THEN m
    ELSE IF TrapsU16(m.I + i) THEN Panic(m)
    ELSE LET m1 == write(m, WrapU16(m.I + i), m.V[i]) IN
         IF m1.panic THEN m1 ELSE StoreRegs_Exclusive(m1, x, i + 1)

\* for i in 0..=x { write(I + i, V[i]) }, from index i on.
RECURSIVE StoreRegs(_, _, _)
StoreRegs(m, x, i) ==
    IF i > x THEN m
    ELSE IF TrapsU16(m.I + i) THEN Panic(m)
    ELSE LET m1 == write(m, WrapU16(m.I + i), m.V[i]) IN
         IF m1.panic THEN m1 ELSE StoreRegs(m1, x, i + 1)

OP_Fx55(m) ==
    LET x == FieldX(m.opcode)
        m1 == StoreRegs(m, x, 0) IN
    IF m1.panic THEN m1
    ELSE IF TrapsU16(m1.I + x + 1) THEN Panic(m1)
    ELSE [m1 EXCEPT !.I = WrapU16(m1.I + x + 1)]

\* for i in 0..=x { V[i] = read(I + i) }, from index i on.
RECURSIVE LoadRegs(_, _, _)
LoadRegs(m, x, i) ==
    IF i > x THEN m
    ELSE IF TrapsU16(m.I + i) THEN Panic(m)
    ELSE IF ~InRam(WrapU16(m.I + i)) THEN Panic(m)
    ELSE LoadRegs([m EXCEPT !.V[i] = m.ram[WrapU16(m.I + i)]], x, i + 1)

OP_Fx65(m) ==
    LET x == FieldX(m.opcode)
        m1 == LoadRegs(m, x, 0) IN
    IF m1.panic THEN m1
    ELSE IF TrapsU16(m1.I + x + 1) THEN Panic(m1)
    ELSE [m1 EXCEPT !.I = WrapU16(m1.I + x + 1)]

\* sprite_byte & (0x80 >> col)
SpritePixel(sprite_byte, col) == (sprite_byte \div (2 ^ (7 - col))) % 2

\* Variant: the column wraps at the height instead of the width.
PixelIndex_HeightForWidth(x_pos, y_pos, row, col) ==
    ((y_pos + row) % VideoHeight) * VideoWidth + ((x_pos + col) % VideoHeight)

\* ((y_pos + row) % video_height) * video_width + ((x_pos + col) % video_width)
PixelIndex(x_pos, y_pos, row, col) ==
    ((y_pos + row) % VideoHeight) * VideoWidth + ((x_pos + col) % VideoWidth)

\* Variant: VF is set for every sprite pixel drawn, lit cell or not.
DrawPixel_AlwaysCollides(m, index) ==
    [m EXCEPT !.V[15] = 1,
              !.framebuffer[index] = -1 - m.framebuffer[index]]

\* One sprite pixel: the collision test, then the XOR.
DrawPixel(m, index) ==
    LET V1 == IF m.framebuffer[index] = PixelOn
              THEN [m.V EXCEPT ![15] = 1] ELSE m.V IN
    [m EXCEPT !.V = V1,
              !.framebuffer[index] = Xor32Ones(m.framebuffer[index])]

\* for col in 0..8, from column col on.
RECURSIVE DrawCols(_, _, _, _, _, _)
DrawCols(m, sprite_byte, x_pos, y_pos, row, col) ==
    IF col >= 8 THEN m
    ELSE LET m1 == IF SpritePixel(sprite_byte, col) > 0
                   THEN DrawPixel(m, PixelIndex(x_pos, y_pos, row, col))
                   ELSE m IN
         DrawCols(m1, sprite_byte, x_pos, y_pos, row, col + 1)

\* for row in 0..height, from row row on; read(I + row) may panic.
RECURSIVE DrawRows(_, _, _, _, _)
DrawRows(m, x_pos, y_pos, height, row) ==
    IF row >= height THEN m
    ELSE IF TrapsU16(m.I + row) THEN Panic(m)
    ELSE IF ~InRam(WrapU16(m.I + row)) THEN Panic(m)
    ELSE DrawRows(DrawCols(m, m.ram[WrapU16(m.I + row)], x_pos, y_pos, row, 0),
                  x_pos, y_pos, height, row + 1)

OP_Dxyn(m) ==
    LET x_pos == m.V[FieldX(m.opcode)]
        y_pos == m.V[FieldY(m.opcode)]
        height == FieldN(m.opcode) IN
    DrawRows([m EXCEPT !.V[15] = 0], x_pos, y_pos, height, 0)

---------------------------------------------------------------------------
(* The dispatch tables built in Chip8::new.  An index beyond a table's     *)
(* length is an out-of-bounds array access: a panic.                       *)

\* Variant: family 0 is decoded on the whole word.
opcodes_0_lookup_WholeWord(m) ==
    IF m.opcode = 224 THEN OP_00E0(m)
    ELSE IF m.opcode = 238 THEN OP_00EE(m)
    ELSE OP_null(m)

opcodes_0_lookup(m) ==
    LET n == m.opcode % 16 IN
    IF n > 14 THEN Panic(m)
    ELSE IF n = 0 THEN OP_00E0(m)
    ELSE IF n = 14 THEN OP_00EE(m)
    ELSE OP_null(m)

opcodes_8_lookup(m) ==
    LET n == m.opcode % 16 IN
    IF n > 14 THEN Panic(m)
    ELSE CASE n = 0 -> OP_8xy0(m)
           [] n = 1 -> OP_8xy1(m)
           [] n = 2 -> OP_8xy2(m)
           [] n = 3 -> OP_8xy3(m)
           [] n = 4 -> OP_8xy4(m)
           [] n = 5 -> OP_8xy5(m)
           [] n = 6 -> OP_8xy6(m)
           [] n = 7 -> OP_8xy7(m)
           [] n = 14 -> OP_8xyE(m)
           [] OTHER -> OP_null(m)

opcodes_E_lookup(m) ==
    LET n == m.opcode % 16 IN
    IF n > 14 THEN Panic(m)
    ELSE IF n = 14 THEN OP_Ex9E(m)
    ELSE IF n = 1 THEN OP_ExA1(m)
    ELSE OP_null(m)

opcodes_F_lookup(m) ==
    LET b == m.opcode % 256 IN
    IF b > 101 THEN Panic(m)
    ELSE CASE b = 7 -> OP_Fx07(m)
           [] b = 10 -> OP_Fx0A(m)
           [] b = 21 -> OP_Fx15(m)
           [] b = 24 -> OP_Fx18(m)
           [] b = 30 -> OP_Fx1E(m)
           [] b = 41 -> OP_Fx29(m)
           [] b = 51 -> OP_Fx33(m)
           [] b = 85 -> OP_Fx55(m)
           [] b = 101 -> OP_Fx65(m)
           [] OTHER -> OP_null(m)

opcodes(m, rnd) ==
    LET f == Family(m.opcode) IN
    CASE f = 0 -> opcodes_0_lookup(m)
      [] f = 1 -> OP_1nnn(m)
      [] f = 2 -> OP_2nnn(m)
      [] f = 3 -> OP_3xkk(m)
      [] f = 4 -> OP_4xkk(m)
      [] f = 5 -> OP_5xy0(m)
      [] f = 6 -> OP_6xkk(m)
      [] f = 7 -> OP_7xkk(m)
      [] f = 8 -> opcodes_8_lookup(m)
      [] f = 9 -> OP_9xy0(m)
      [] f = 10 -> OP_Annn(m)
      [] f = 11 -> OP_Bnnn(m)
      [] f = 12 -> OP_Cxkk(m, rnd)
      [] f = 13 -> OP_Dxyn(m)
      [] f = 14 -> opcodes_E_lookup(m)
      [] f = 15 -> opcodes_F_lookup(m)

---------------------------------------------------------------------------
(* The disassembler: the get_disasm column of the same tables.  A          *)
(* get_disasm call yields the String, or panics on an index beyond the     *)
(* table's length.                                                         *)

\* format!("{:X}", v): upper-case hexadecimal digits, no leading zeros
HexDigits ==
    <<"0", "1", "2", "3", "4", "5", "6", "7", "8", "9", "A", "B", "C", "D",
      "E", "F">>

RECURSIVE UpperHex(_)
UpperHex(v) ==
    IF v < 16 THEN HexDigits[v + 1]
    ELSE UpperHex(v \div 16) \o HexDigits[(v % 16) + 1]

get_args_disasm_nnn(d) == UpperHex(FieldNNN(d))
get_args_disasm_xkk(d) ==
    "V" \o UpperHex(FieldX(d)) \o ", " \o UpperHex(FieldKK(d))
get_args_disasm_xy(d) ==
    "V" \o UpperHex(FieldX(d)) \o ", V" \o UpperHex(FieldY(d))
get_args_disasm_xyn(d) ==
    "V" \o UpperHex(FieldX(d)) \o ", V" \o UpperHex(FieldY(d)) \o ", "
        \o UpperHex(FieldN(d))
get_args_disasm_x(d) == "V" \o UpperHex(FieldX(d))

Disasm(text) == [panic |-> FALSE, text |-> text]
DisasmPanics == [panic |-> TRUE, text |-> ""]

opcodes_0_name_lookup(d) ==
    LET n == d % 16 IN
    IF n > 14 THEN DisasmPanics
    ELSE IF n = 0 THEN Disasm("CLS")
    ELSE IF n = 14 THEN Disasm("RET")
    ELSE Disasm("null")

opcodes_8_name_lookup(d) ==
    LET n == d % 16 IN
    IF n > 14 THEN DisasmPanics
    ELSE CASE n = 0 -> Disasm("LD " \o get_args_disasm_xy(d))
           [] n = 1 -> Disasm("OR " \o get_args_disasm_xy(d))
           [] n = 2 -> Disasm("AND " \o get_args_disasm_xy(d))
           [] n = 3 -> Disasm("XOR " \o get_args_disasm_xy(d))
           [] n = 4 -> Disasm("ADD " \o get_args_disasm_xy(d))
           [] n = 5 -> Disasm("SUB " \o get_args_disasm_xy(d))
           [] n = 6 -> Disasm("SHR " \o get_args_disasm_xy(d))
           [] n = 7 -> Disasm("SUBN " \o get_args_disasm_xy(d))
           [] n = 14 -> Disasm("SHL " \o get_args_disasm_xy(d))
           [] OTHER -> Disasm("null")

opcodes_E_name_lookup(d) ==
    LET n == d % 16 IN
    IF n > 14 THEN DisasmPanics
    ELSE IF n = 14 THEN Disasm("SKP " \o get_args_disasm_x(d))
    ELSE IF n = 1 THEN Disasm("SKNP " \o get_args_disasm_x(d))
    ELSE Disasm("null")

opcodes_F_name_lookup(d) ==
    LET b == d % 256 IN
    IF b > 101 THEN DisasmPanics
    ELSE CASE b = 7 -> Disasm("LD " \o get_args_disasm_x(d) \o ", DT")
           [] b = 10 -> Disasm("LD " \o get_args_disasm_x(d) \o ", K")
           [] b = 21 -> Disasm("LD DT, " \o get_args_disasm_x(d))
           [] b = 24 -> Disasm("LD ST, " \o get_args_disasm_x(d))
           [] b = 30 -> Disasm("ADD I, " \o get_args_disasm_x(d))
           [] b = 41 -> Disasm("LD F, " \o get_args_disasm_x(d))
           [] b = 51 -> Disasm("LD B, " \o get_args_disasm_x(d))
           [] b = 85 -> Disasm("LD [I], " \o get_args_disasm_x(d))
           [] b = 101 -> Disasm("LD " \o get_args_disasm_x(d) \o ", [I]")
           [] OTHER -> Disasm("null")

\* (self.opcodes[(disasm_opcode & 0xF000) >> 12].get_disasm)(self)
get_disasm(d) ==
    LET f == Family(d) IN
    CASE f = 0 -> opcodes_0_name_lookup(d)
      [] f = 1 -> Disasm("JP " \o get_args_disasm_nnn(d))
      [] f = 2 -> Disasm("CALL " \o get_args_disasm_nnn(d))
      [] f = 3 -> Disasm("SE " \o get_args_disasm_xkk(d))
      [] f = 4 -> Disasm("SNE " \o get_args_disasm_xkk(d))
      [] f = 5 -> Disasm("SE " \o get_args_disasm_xy(d))
      [] f = 6 -> Disasm("LD " \o get_args_disasm_xkk(d))
      [] f = 7 -> Disasm("ADD " \o get_args_disasm_xkk(d))
      [] f = 8 -> opcodes_8_name_lookup(d)
      [] f = 9 -> Disasm("SNE " \o get_args_disasm_xy(d))
      [] f = 10 -> Disasm("LD I, " \o get_args_disasm_nnn(d))
      [] f = 11 -> Disasm("JP V0, " \o get_args_disasm_nnn(d))
      [] f = 12 -> Disasm("RND " \o get_args_disasm_xkk(d))
      [] f = 13 -> Disasm("DRW " \o get_args_disasm_xyn(d))
      [] f = 14 -> opcodes_E_name_lookup(d)
      [] f = 15 -> opcodes_F_name_lookup(d)

\* ((self.read(i) as u16) << 8) | (self.read(i + 1) as u16)
WordAt(ram, i) == ram[i] * 256 + ram[i + 1]

\* The while loop of disassemble() visits 0x200, 0x202, ... and ends after
\* 0xFFE (i = 4096), or at the first address whose get_disasm panics.
disassemble_loop(ram) ==
    LET stops == { i \in RomBase..(RamSize - 1) :
                     i % 2 = 0 /\ get_disasm(WordAt(ram, i)).panic } IN
    IF stops = {} THEN RamSize
    ELSE CHOOSE i \in stops : \A j \in stops : i <= j

\* disassemble(): disasm_opcode and disasm_map as the loop leaves them.  The
\* map was cleared first and has the entries inserted before the loop ended.
disassemble(ram) ==
    (CHOOSE it \in {
        [ panic |-> end < RamSize,
          disasm_opcode |-> IF end < RamSize THEN WordAt(ram, end)
                            ELSE WordAt(ram, RamSize - 2),
          disasm_map |->
              [i \in { a \in RomBase..(end - 1) : a % 2 = 0 } |->
                  get_disasm(WordAt(ram, i)).text] ]
      : end \in { disassemble_loop(ram) } } : TRUE)

---------------------------------------------------------------------------
(* clock: fetch, pc += 2, execute, timers *)

\* The fetch reads ram[pc] and ram[pc + 1]; either read may panic.
FetchPanics(m) == ~InRam(m.pc) \/ TrapsU16(m.pc + 1) \/ ~InRam(WrapU16(m.pc + 1))

Fetched(m) == m.ram[m.pc] * 256 + m.ram[WrapU16(m.pc + 1)]

\* Variant: only the delay timer is decremented.
DecTimers_DelayOnly(m) ==
    [m EXCEPT !.delay_timer = IF @ > 0 THEN @ - 1 ELSE @]

DecTimers(m) ==
    [m EXCEPT !.delay_timer = IF @ > 0 THEN @ - 1 ELSE @,
              !.sound_timer = IF @ > 0 THEN @ - 1 ELSE @]

\* Variant: the timers are decremented before the instruction executes.
clock_TimersFirst(m, rnd) ==
    IF ~InRam(m.pc) \/ ~InRam(m.pc + 1) THEN Panic(m)
    ELSE LET m1 == [m EXCEPT !.opcode = m.ram[m.pc] * 256 + m.ram[m.pc + 1],
                             !.pc = m.pc + 2,
                             !.delay_timer = IF @ > 0 THEN @ - 1 ELSE @,
                             !.sound_timer = IF @ > 0 THEN @ - 1 ELSE @] IN
         LET m2 == opcodes(m1, rnd) IN
         IF m2.panic THEN [m2 EXCEPT !.delay_timer = m.delay_timer,
                                     !.sound_timer = m.sound_timer]
         ELSE m2

clock(m, rnd) ==
    IF FetchPanics(m) THEN Panic(m)
    ELSE LET m1 == [m EXCEPT !.opcode = Fetched(m)] IN
         IF TrapsU16(m1.pc + 2) THEN Panic(m1)
         ELSE LET m2 == opcodes([m1 EXCEPT !.pc = WrapU16(m1.pc + 2)], rnd) IN
              IF m2.panic THEN m2 ELSE DecTimers(m2)

---------------------------------------------------------------------------
(* The keys the host sets and the random bytes a tick can draw *)

KeyInputs == {0, 15, 16}
KeyValues == {0, 1, 255}

\* The bytes getrandom can deliver to this tick: all of them when the word
\* at pc is a Cxkk, and an unused one otherwise.
RandomBytes(s) ==
    IF ~FetchPanics(Machine(s)) /\ Family(Fetched(Machine(s))) = 12
    THEN 0..255 ELSE {0}

---------------------------------------------------------------------------
(* The host's calls *)

Init ==
    /\ state = Chip8State_new
    /\ saved_state = Chip8State_new
    /\ halted = FALSE
    /\ overflow_checks \in BOOLEAN
    /\ lastOp = "new"
    /\ prevOp = "new"
    /\ rom = <<>>
    /\ ticks = 0
    /\ saved_ticks = 0
    /\ assembler = Assembler_new(<<>>)
    /\ compiler = new_from_lexer(<<>>)
    /\ disasm_opcode = 0
    /\ disasm_map = EmptyMap
    /\ lexer = Lexer_new("")
    /\ calls = <<>>

LoadFrom(images) ==
    /\ ~halted
    /\ \E buffer \in images :
         LET m == load_rom_from_bytes(Machine(state), buffer) IN
         /\ state' = StateOf(m)
         /\ halted' = m.panic
         /\ rom' = buffer
    /\ lastOp' = "load"
    /\ prevOp' = lastOp
    /\ ticks' = 0
    /\ calls' = <<>>
    /\ UNCHANGED <<saved_state, overflow_checks, saved_ticks, assembler,
                   compiler, disasm_opcode, disasm_map,
                   lexer>>

Load == LoadFrom(Roms)

Reset ==
    /\ ~halted
    /\ state' = StateOf(reset(Machine(state)))
    /\ lastOp' = "reset"
    /\ prevOp' = lastOp
    /\ ticks' = 0
    /\ calls' = <<>>
    /\ UNCHANGED <<saved_state, halted, overflow_checks, rom, saved_ticks, assembler,
                   compiler, disasm_opcode, disasm_map,
                   lexer>>

\* History of the compiled calls.  A call opens when the first instruction of
\* a call prologue of the loaded compiled program (push_frame: LDFReg(0xD)
\* followed by LDIReg(0xD)) executes: sp and V13 are recorded as they were
\* just before.  Its CALL records the address of the instruction after it,
\* and the RET of the callee closes it.
PrologueStarts ==
    IF rom = <<>> \/ rom # assembler.binary \/ assembler.asm # compiler.asm
    THEN {}
    ELSE { RomBase + 2 * (k - 1) :
             k \in { j \in 1..(Len(compiler.asm) - 1) :
                       /\ compiler.asm[j] = LDFReg(13)
                       /\ compiler.asm[j + 1] = LDIReg(13) } }
CallsAfter(cs, s, m) ==
    IF m.panic THEN cs
    ELSE IF s.pc \in PrologueStarts
    THEN Append(cs, [sp |-> s.sp, V13 |-> s.V[13], ret |-> 0])
    ELSE IF cs = <<>> THEN cs
    ELSE IF m.opcode \div 4096 = 2 THEN [cs EXCEPT ![Len(cs)].ret = s.pc + 2]
    ELSE IF m.opcode = 238 THEN SubSeq(cs, 1, Len(cs) - 1)
    ELSE cs

TickWithin(limit) ==
    /\ ~halted
    /\ ticks < limit
    /\ \E rnd \in RandomBytes(state) :
         LET m == clock(Machine(state), rnd) IN
         /\ state' = StateOf(m)
         /\ halted' = m.panic
         /\ calls' = CallsAfter(calls, state, m)
    /\ lastOp' = "tick"
    /\ prevOp' = lastOp
    /\ ticks' = ticks + 1
    /\ UNCHANGED <<saved_state, overflow_checks, rom, saved_ticks, assembler,
                   compiler, disasm_opcode, disasm_map,
                   lexer>>

Tick == TickWithin(MaxTicks)

set_key(m, key, value) ==
    IF key \in 0..15 THEN [m EXCEPT !.keys[key] = value] ELSE Panic(m)

SetKey ==
    /\ ~halted
    /\ \E key \in KeyInputs, value \in KeyValues :
         LET m == set_key(Machine(state), key, value) IN
         /\ state' = StateOf(m)
         /\ halted' = m.panic
    /\ lastOp' = "set_key"
    /\ prevOp' = lastOp
    /\ UNCHANGED <<saved_state, overflow_checks, rom, ticks, saved_ticks, assembler,
                   compiler, disasm_opcode, disasm_map,
                   lexer, calls>>

\* Variant: the snapshot leaves out the RAM.
save_state_WithoutRam(cur) == [cur EXCEPT !.ram = FontRam]

\* self.saved_state = self.state.clone(): the arrays are held inline, so the
\* clone shares nothing with the running state.
save_state(cur) == cur

\* Variant: the restore keeps the keypad of the running state.
load_state_KeepsKeys(cur, saved) == [saved EXCEPT !.keys = cur.keys]

\* self.state = self.saved_state.clone()
load_state(cur, saved) == saved

SaveState ==
    /\ ~halted
    /\ saved_state' = save_state(state)
    /\ saved_ticks' = ticks
    /\ lastOp' = "save_state"
    /\ prevOp' = lastOp
    /\ UNCHANGED <<state, halted, overflow_checks, rom, ticks, assembler,
                   compiler, disasm_opcode, disasm_map,
                   lexer, calls>>

LoadState ==
    /\ ~halted
    /\ state' = load_state(state, saved_state)
    /\ ticks' = saved_ticks
    /\ lastOp' = "load_state"
    /\ prevOp' = lastOp
    /\ UNCHANGED <<saved_state, halted, overflow_checks, rom, saved_ticks, assembler,
                   compiler, disasm_opcode, disasm_map,
                   lexer, calls>>

---------------------------------------------------------------------------
(* Specifications: the host loading control-flow programs; keypad         *)
(* programs with the host setting keys; drawing programs; programs with   *)
(* snapshots taken and restored; arithmetic programs.                     *)

Next == Load \/ Reset \/ Tick

Spec == Init /\ [][Next]_vars

LoadKeys == LoadFrom(KeyRoms)
TickKeys == TickWithin(MaxKeyTicks)
NextKeys == LoadKeys \/ TickKeys \/ SetKey
SpecKeys == Init /\ [][NextKeys]_vars

LoadDraw == LoadFrom(DrawRoms)
TickDraw == TickWithin(MaxDrawTicks)
NextDraw == LoadDraw \/ TickDraw
SpecDraw == Init /\ [][NextDraw]_vars

LoadSnap == LoadFrom(SnapRoms)
TickSnap == TickWithin(MaxSnapTicks)
NextSnap == LoadSnap \/ TickSnap \/ SaveState \/ LoadState
SpecSnap == Init /\ [][NextSnap]_vars

LoadAlu == LoadFrom(AluRoms)
TickAlu == TickWithin(MaxAluTicks)
NextAlu == LoadAlu \/ TickAlu
SpecAlu == Init /\ [][NextAlu]_vars

LoadReg == LoadFrom(RegRoms)
TickReg == TickWithin(MaxRegTicks)
NextReg == LoadReg \/ TickReg
SpecReg == Init /\ [][NextReg]_vars

\* Assembler::new_from_compiler, on a compiler holding the program asm; the
\* host builds one assembler in a session.
NewFromCompiler ==
    /\ ~halted
    /\ assembler = Assembler_new(<<>>)
    /\ \E asm \in AsmPrograms : assembler' = Assembler_new(asm)
    /\ lastOp' = "new_from_compiler"
    /\ prevOp' = lastOp
    /\ UNCHANGED <<state, saved_state, halted, overflow_checks, rom, ticks,
                   saved_ticks, compiler, disasm_opcode, disasm_map, lexer, calls>>

Assemble ==
    /\ ~halted
    /\ assembler.asm # <<>>
    /\ Len(assembler.binary_u16) + Len(assembler.asm) <= MaxAsmWords
    /\ assembler' = assemble(assembler)
    /\ lastOp' = "assemble"
    /\ prevOp' = lastOp
    /\ UNCHANGED <<state, saved_state, halted, overflow_checks, rom, ticks,
                   saved_ticks, compiler, disasm_opcode, disasm_map, lexer, calls>>

LoadAssembler ==
    /\ ~halted
    /\ assembler.binary # <<>>
    /\ LET m == load_rom_from_assembler(Machine(state), assembler) IN
         /\ state' = StateOf(m)
         /\ halted' = m.panic
    /\ rom' = assembler.binary
    /\ lastOp' = "load"
    /\ prevOp' = lastOp
    /\ ticks' = 0
    /\ calls' = <<>>
    /\ UNCHANGED <<saved_state, overflow_checks, saved_ticks, assembler,
                   compiler, disasm_opcode, disasm_map,
                   lexer>>

TickAsm == TickWithin(MaxAsmTicks)
NextAsm == NewFromCompiler \/ Assemble \/ LoadAssembler \/ TickAsm
SpecAsm == Init /\ [][NextAsm]_vars

LoadBounds == LoadFrom(BoundsRoms)
TickBounds == TickWithin(MaxBoundsTicks)
NextBounds == LoadBounds \/ TickBounds
SpecBounds == Init /\ [][NextBounds]_vars

\* The host pressing key 3, or a key that does not exist
SetKeyRestore ==
    /\ ~halted
    /\ \E key \in {3, 16} :
         LET m == set_key(Machine(state), key, 1) IN
         /\ state' = StateOf(m)
         /\ halted' = m.panic
    /\ lastOp' = "set_key"
    /\ prevOp' = lastOp
    /\ UNCHANGED <<saved_state, overflow_checks, rom, ticks, saved_ticks, assembler,
                   compiler, disasm_opcode, disasm_map,
                   lexer, calls>>

LoadRestore == LoadFrom(RestoreRoms)
TickRestore == TickWithin(MaxRestoreTicks)
NextRestore ==
    LoadRestore \/ TickRestore \/ SetKeyRestore \/ Reset \/ SaveState
        \/ LoadState
SpecRestore == Init /\ [][NextRestore]_vars

\* Compiler::new_from_lexer on a lexer that has lexed one of the programs;
\* the host builds one compiler in a session.
NewFromLexerWith(programs) ==
    /\ ~halted
    /\ compiler = new_from_lexer(<<>>)
    /\ \E tokens \in programs : compiler' = new_from_lexer(tokens)
    /\ lastOp' = "new_from_lexer"
    /\ prevOp' = lastOp
    /\ UNCHANGED <<state, saved_state, halted, overflow_checks, rom, ticks,
                   saved_ticks, assembler, disasm_opcode, disasm_map,
                   lexer, calls>>

Compile ==
    /\ ~halted
    /\ compiler' = compile(compiler)
    /\ halted' = compiler'.panic
    /\ lastOp' = "compile"
    /\ prevOp' = lastOp
    /\ UNCHANGED <<state, saved_state, overflow_checks, rom, ticks,
                   saved_ticks, assembler, disasm_opcode, disasm_map,
                   lexer, calls>>

NewFromLexer == NewFromLexerWith(CompilerPrograms)
NextCompile == NewFromLexer \/ Compile
SpecCompile == Init /\ [][NextCompile]_vars

NewFromLexerRegisters == NewFromLexerWith(RegisterPrograms)
NextRegisters == NewFromLexerRegisters \/ Compile
SpecRegisters == Init /\ [][NextRegisters]_vars

NewFromLexerLiterals == NewFromLexerWith(LiteralPrograms)
NextLiterals == NewFromLexerLiterals \/ Compile
SpecLiterals == Init /\ [][NextLiterals]_vars


\* disassemble(): it reads the RAM and writes disasm_opcode and disasm_map
Disassemble ==
    /\ ~halted
    /\ LET d == disassemble(state.ram) IN
       /\ disasm_opcode' = d.disasm_opcode
       /\ disasm_map' = d.disasm_map
       /\ halted' = d.panic
    /\ lastOp' = "disassemble"
    /\ prevOp' = lastOp
    /\ UNCHANGED <<state, saved_state, overflow_checks, rom, ticks,
                   saved_ticks, assembler, compiler, lexer, calls>>

\* The host loads the image it is going to disassemble: no load follows a
\* disassemble() in the sessions explored.
LoadDisasm == disasm_map = EmptyMap /\ LoadFrom(DisasmRoms)
TickDisasm == rom \in DisasmRunRoms /\ TickWithin(MaxDisasmTicks)
NextDisasm == LoadDisasm \/ TickDisasm \/ Disassemble
SpecDisasm == Init /\ [][NextDisasm]_vars

\* Lexer::new(src) and lex(), which the host calls once on a source
LexerNew ==
    /\ ~halted
    /\ lexer = Lexer_new("")
    /\ \E src \in LexerSources : lexer' = Lexer_new(src)
    /\ lastOp' = "lexer_new"
    /\ prevOp' = lastOp
    /\ UNCHANGED <<state, saved_state, halted, overflow_checks, rom, ticks,
                   saved_ticks, assembler, compiler, disasm_opcode,
                   disasm_map, calls>>

Lex ==
    /\ ~halted
    /\ lexer.tokens = <<>>
    /\ lexer' = lex(lexer)
    /\ halted' = lexer'.panic
    /\ lastOp' = "lex"
    /\ prevOp' = lastOp
    /\ UNCHANGED <<state, saved_state, overflow_checks, rom, ticks,
                   saved_ticks, assembler, compiler, disasm_opcode,
                   disasm_map, calls>>

NextLex == LexerNew \/ Lex
SpecLex == Init /\ [][NextLex]_vars

\* Assembler::new_from_compiler(&compiler) on the compiler that has compiled
NewFromCompiled ==
    /\ ~halted
    /\ lastOp = "compile"
    /\ assembler' = Assembler_new(compiler.asm)
    /\ lastOp' = "new_from_compiler"
    /\ prevOp' = lastOp
    /\ UNCHANGED <<state, saved_state, halted, overflow_checks, rom, ticks,
                   saved_ticks, compiler, disasm_opcode, disasm_map, lexer, calls>>

\* assemble(), called once on an assembler
AssembleOnce ==
    /\ ~halted
    /\ lastOp = "new_from_compiler"
    /\ assembler' = assemble(assembler)
    /\ lastOp' = "assemble"
    /\ prevOp' = lastOp
    /\ UNCHANGED <<state, saved_state, halted, overflow_checks, rom, ticks,
                   saved_ticks, compiler, disasm_opcode, disasm_map, lexer, calls>>

\* The host compiles a program, assembles it, loads the binary into a fresh
\* machine and runs it: each step follows the one before it.
CompileOnce == lastOp = "new_from_lexer" /\ Compile
LoadAssembled == lastOp = "assemble" /\ LoadAssembler
TickLoaded(limit) == lastOp \in {"load", "tick"} /\ TickWithin(limit)

NewFromLexerIf == NewFromLexerWith(IfPrograms)
TickIf == TickLoaded(MaxIfTicks)
NextIf ==
    \/ NewFromLexerIf \/ CompileOnce \/ NewFromCompiled \/ AssembleOnce
    \/ LoadAssembled \/ TickIf
SpecIf == Init /\ [][NextIf]_vars

NewFromLexerWhile == NewFromLexerWith(WhilePrograms)
\* the run is followed until pc leaves the loaded program
TickWhile == state.pc < RomBase + Len(rom) /\ TickLoaded(MaxWhileTicks)
NextWhile ==
    \/ NewFromLexerWhile \/ CompileOnce \/ NewFromCompiled \/ AssembleOnce
    \/ LoadAssembled \/ TickWhile
SpecWhile == Init /\ [][NextWhile]_vars

NewFromLexerLogic == NewFromLexerWith(LogicPrograms)
TickLogic == state.pc < RomBase + Len(rom) /\ TickLoaded(MaxLogicTicks)
NextLogic ==
    \/ NewFromLexerLogic \/ CompileOnce \/ NewFromCompiled \/ AssembleOnce
    \/ LoadAssembled \/ TickLogic
SpecLogic == Init /\ [][NextLogic]_vars

NewFromLexerBlocks == NewFromLexerWith(BlockPrograms)
NextBlocks == NewFromLexerBlocks \/ CompileOnce
SpecBlocks == Init /\ [][NextBlocks]_vars

NewFromLexerFn == NewFromLexerWith(FnPrograms)
NextFn == NewFromLexerFn \/ CompileOnce
SpecFn == Init /\ [][NextFn]_vars

---------------------------------------------------------------------------
(* Vocabulary of the properties *)

\* This step is a clock() call.
TickStep == lastOp' = "tick" /\ ticks' = ticks + 1
\* The clock() call from this state fetches a word, and which one.
CanFetch == ~FetchPanics(Machine(state))
NextWord == Fetched(Machine(state))
\* This step is a clock() call that executes the word w(hich it fetched).
Executes(w) == TickStep /\ CanFetch /\ NextWord = w
\* The low byte of an Fx instruction / low nibble of an 8xy instruction
IsFx(w, low) == Family(w) = 15 /\ FieldKK(w) = low
Is8xy(w, low) == Family(w) = 8 /\ FieldN(w) = low
Dec(t) == IF t > 0 THEN t - 1 ELSE 0

---------------------------------------------------------------------------
(* Properties *)

\* C1: after each tick, pc is in [0, 0xFFF].
C1_PcInRam == lastOp = "tick" => state.pc \in 0..4095

\* C2: sp is in [0, 16] in every observable state, also after a 00EE executed
\* with sp = 0 and a 2nnn executed with sp = 16.
C2_SpInRange == state.sp \in 0..16

\* C3: after load(buffer) with |buffer| <= 3584, from any prior state, the
\* load succeeds and leaves pc = 0x200, I = 0, sp = 0, both timers 0, all of
\* V, stack, keys and framebuffer 0, the fontset in RAM[0..79], the buffer
\* at RAM[0x200..], and 0 in every other RAM byte.
C3_LoadResets ==
    (lastOp = "load" /\ Len(rom) <= 3584) =>
        /\ ~halted
        /\ state.pc = 512 /\ state.I = 0 /\ state.sp = 0
        /\ state.delay_timer = 0 /\ state.sound_timer = 0
        /\ \A i \in 0..15 :
               state.V[i] = 0 /\ state.stack[i] = 0 /\ state.keys[i] = 0
        /\ \A i \in 0..2047 : state.framebuffer[i] = 0
        /\ \A i \in 0..4095 :
               state.ram[i] =
                   IF i <= 79 THEN Fontset[i + 1]
                   ELSE IF i >= 512 /\ i - 512 < Len(rom) THEN rom[i - 512 + 1]
                   ELSE 0

\* A full-size image has been loaded over a machine that had run.
C3_Witness ==
    /\ lastOp = "load" /\ prevOp = "tick" /\ ~halted
    /\ Len(rom) = 3584
    /\ state.ram[512] = 31 /\ state.ram[4092] = 48 /\ state.ram[79] = 128

\* C4: a 2nnn executed at address a with sp = s < 16 stores a+2 in stack[s]
\* (and nothing else in the stack), sets sp = s+1 and pc = nnn; a 00EE
\* executed with sp = s+1 sets sp = s and pc = stack[s] and leaves the stack
\* alone.  So the frames below a call survive any nested calls and returns.
C4_CallReturn ==
    [][ (TickStep /\ CanFetch) =>
          /\ (Family(NextWord) = 2 /\ state.sp < 16) =>
                /\ ~halted'
                /\ state'.stack = [state.stack EXCEPT ![state.sp] = state.pc + 2]
                /\ state'.sp = state.sp + 1
                /\ state'.pc = FieldNNN(NextWord)
          /\ (NextWord = 238 /\ state.sp >= 1) =>
                /\ ~halted'
                /\ state'.sp = state.sp - 1
                /\ state'.pc = state.stack[state.sp - 1]
                /\ state'.stack = state.stack ]_vars

\* The outer RET of two nested calls has brought the machine back to the
\* instruction after the outermost CALL, the inner frame still on record.
C4_Witness ==
    /\ lastOp = "tick" /\ ~halted
    /\ state.opcode = 238 /\ state.sp = 0 /\ state.pc = 514
    /\ state.stack[0] = 514 /\ state.stack[1] = 520

\* C5: after every Dxyn, VF = 1 if and only if at least one pixel that was
\* lit before the draw is unlit after it, and VF = 0 otherwise.
C5_CollisionFlag ==
    [][ (TickStep /\ CanFetch /\ Family(NextWord) = 13) =>
          state'.V[15] =
              IF \E i \in 0..2047 :
                     state.framebuffer[i] = PixelOn /\ state'.framebuffer[i] = 0
              THEN 1 ELSE 0 ]_vars

\* A draw has turned some lit pixels off and left others lit.
C5_Witness ==
    /\ lastOp = "tick" /\ ~halted
    /\ Family(state.opcode) = 13
    /\ state.V[15] = 1
    /\ \E i \in 0..2047 : state.framebuffer[i] = PixelOn

\* The framebuffer cells a Dxyn word w addresses from this state: the cell of
\* row (V[y]+r) mod 32 and column (V[x]+c) mod 64 for each set bit (7-c) of
\* RAM[I+r], 0 <= r < n, 0 <= c < 8.
SpriteCells(w) ==
    { ((state.V[FieldY(w)] + r) % 32) * 64 + ((state.V[FieldX(w)] + c) % 64) :
        <<r, c>> \in { rc \in (0..(FieldN(w) - 1)) \X (0..7) :
                         (state.ram[state.I + rc[1]] \div (2 ^ (7 - rc[2]))) % 2 = 1 } }

\* C6: a Dxyn that completes toggles exactly the cells its sprite addresses,
\* wrapping at the right and bottom edges, and leaves every other cell, I and
\* the RAM unchanged.
C6_DrawToggles ==
    [][ (TickStep /\ CanFetch /\ Family(NextWord) = 13 /\ ~halted') =>
          /\ \A i \in 0..2047 :
                 state'.framebuffer[i] =
                     IF i \in SpriteCells(NextWord)
                     THEN (IF state.framebuffer[i] = 0 THEN PixelOn ELSE 0)
                     ELSE state.framebuffer[i]
          /\ state'.I = state.I
          /\ state'.ram = state.ram ]_vars

\* Glyph 0 drawn at (60,30) and again at (62,30): lit cells in row 30 column 0
\* (past the right edge) and in row 0 column 1 (past both edges).
C6_Witness ==
    /\ lastOp = "tick" /\ ~halted
    /\ state.opcode = 53269
    /\ state.V[0] = 62 /\ state.V[1] = 30
    /\ state.framebuffer[30 * 64] = PixelOn
    /\ state.framebuffer[1] = PixelOn

\* C7: in every state reachable by load, tick, save_state and load_state,
\* each framebuffer cell is exactly 0x00000000 or 0xFFFFFFFF.
C7_PixelValues ==
    \A i \in 0..2047 : state.framebuffer[i] \in {0, PixelOn}

\* A restored snapshot with lit pixels, over a machine that had other content.
C7_Witness ==
    /\ lastOp = "load_state" /\ prevOp = "tick"
    /\ \E i \in 0..2047 : state.framebuffer[i] = PixelOn

\* C8: in a tick that completes, the instruction executes before the timers
\* are decremented: Fx15 (Fx18) with V[x] = v > 0 ends with the delay (sound)
\* timer at v-1, Fx07 stores the delay timer's value from before the tick,
\* and otherwise a timer goes down by exactly 1 while > 0 and stays at 0.
C8_TimersAfterExecute ==
    [][ (TickStep /\ CanFetch /\ ~halted') =>
          LET w == NextWord
              x == FieldX(w) IN
          /\ state'.delay_timer =
                 IF IsFx(w, 21) THEN Dec(state.V[x]) ELSE Dec(state.delay_timer)
          /\ state'.sound_timer =
                 IF IsFx(w, 24) THEN Dec(state.V[x]) ELSE Dec(state.sound_timer)
          /\ IsFx(w, 7) => state'.V[x] = state.delay_timer ]_vars

\* LD V0,5; LD DT,V0; LD V1,DT has run: V1 = 4 and the timer is at 3.
C8_Witness ==
    /\ lastOp = "tick" /\ ~halted
    /\ state.opcode = 61703
    /\ state.V[1] = 4 /\ state.delay_timer = 3

\* C9: a tick that executes Fx0A at address a while every key is 0 leaves
\* pc = a and all registers unchanged; with some key non-zero it sets V[x] to
\* the lowest index of a non-zero key, changes no other register, and leaves
\* pc = a+2.
C9_KeyWait ==
    [][ (TickStep /\ CanFetch /\ IsFx(NextWord, 10)) =>
          LET x == FieldX(NextWord)
              down == {i \in 0..15 : state.keys[i] # 0} IN
          /\ ~halted'
          /\ down = {} => (state'.pc = state.pc /\ state'.V = state.V)
          /\ down # {} =>
                /\ state'.pc = state.pc + 2
                /\ state'.V[x] \in down
                /\ \A i \in down : state'.V[x] <= i
                /\ \A r \in 0..15 : r # x => state'.V[r] = state.V[r] ]_vars

\* After one blocked tick the wait ended with keys 0 and 15 both
\* down: V3, which held 9, holds 0.
C9_Witness ==
    /\ lastOp = "tick" /\ ~halted
    /\ state.opcode = 62218
    /\ ticks = 5
    /\ state.pc = 520
    /\ state.keys[0] # 0 /\ state.keys[15] # 0
    /\ state.V[3] = 0

\* C10: 8xy5 sets V[x] = (V[x] - V[y]) mod 256 with VF = 1 exactly when
\* V[x] >= V[y]; 8xy7 sets V[x] = (V[y] - V[x]) mod 256 with VF = 1 exactly
\* when V[y] >= V[x]; neither halts the machine (x, y other than F).
C10_SubBorrow ==
    [][ (TickStep /\ CanFetch /\ (Is8xy(NextWord, 5) \/ Is8xy(NextWord, 7))
         /\ FieldX(NextWord) # 15 /\ FieldY(NextWord) # 15) =>
          LET x == FieldX(NextWord)
              y == FieldY(NextWord)
              a == IF Is8xy(NextWord, 5) THEN state.V[x] ELSE state.V[y]
              b == IF Is8xy(NextWord, 5) THEN state.V[y] ELSE state.V[x] IN
          /\ ~halted'
          /\ state'.V[x] = (a - b) % 256
          /\ state'.V[15] = IF a >= b THEN 1 ELSE 0 ]_vars

\* C11: 7xkk sets V[x] = (V[x] + kk) mod 256, leaves VF and every other
\* register unchanged, and does not halt the machine.
C11_AddByte ==
    [][ (TickStep /\ CanFetch /\ Family(NextWord) = 7) =>
          LET x == FieldX(NextWord) IN
          /\ ~halted'
          /\ state'.V =
                [state.V EXCEPT ![x] = (state.V[x] + FieldKK(NextWord)) % 256]
          /\ state'.I = state.I ]_vars

\* C12: Fx29 sets I = 5 * V[x], the product not truncated to 8 bits, and
\* changes nothing else.
C12_FontAddress ==
    [][ (TickStep /\ CanFetch /\ IsFx(NextWord, \H29)) =>
          /\ ~halted'
          /\ state'.I = 5 * state.V[FieldX(NextWord)]
          /\ state'.V = state.V
          /\ state'.ram = state.ram
          /\ state'.framebuffer = state.framebuffer
          /\ state'.stack = state.stack
          /\ state'.sp = state.sp
          /\ state'.keys = state.keys ]_vars

\* C13: after each tick, I is in [0, 4095], ticks that execute Fx1E, Fx55
\* or Fx65 included.
C13_IndexInRam == (lastOp = "tick" /\ ~halted) => state.I \in 0..4095

\* C14: after any set_key calls interleaved with ticks every keys[i] is 0
\* or 1, and a set_key with an index outside [0,15] fails and changes no
\* machine state.
C14_KeysBinary ==
    [][ /\ \A i \in 0..15 : state'.keys[i] \in {0, 1}
        /\ (lastOp' = "set_key" /\ halted') => state' = state ]_vars

\* C15: save_state followed by any tick, set_key, load and reset calls and
\* then load_state yields the state at the save_state call, and load_state
\* can be repeated with the same result: save_state records the whole
\* state, no other call changes the record, and load_state installs it.
C15_SnapshotRestores ==
    [][ /\ lastOp' = "save_state" => saved_state' = state
        /\ lastOp' # "save_state" => saved_state' = saved_state
        /\ lastOp' = "load_state" => state' = saved_state ]_vars

\* A restore right after a key press, into a machine that has since loaded
\* another program: the saved program, pc, stack and keypad are back.
C15_Witness ==
    /\ lastOp = "load_state" /\ prevOp = "set_key"
    /\ rom = RomDrawWrap
    /\ state.ram[512] = \H22 /\ state.pc = \H202 /\ state.sp = 1
    /\ state.stack[0] = \H202
    /\ state.keys[3] = 0
    /\ state = saved_state

\* C16: when a tick halts with a runtime error, the state left for
\* inspection equals the state before that tick began.
C16_HaltKeepsState == [][ (TickStep /\ halted') => state' = state ]_vars

\* The RAM addresses the instruction w addresses from this state, as the
\* instruction set defines them (I plus an offset, not reduced to 16 bits).
Addressed(w) ==
    IF IsFx(w, \H33) THEN state.I..(state.I + 2)
    ELSE IF IsFx(w, \H55) \/ IsFx(w, \H65)
    THEN state.I..(state.I + FieldX(w))
    ELSE IF Family(w) = 13 THEN state.I..(state.I + FieldN(w) - 1)
    ELSE {}
\* The instruction w is a keypad skip on a key above 15.
BadKey(w) ==
    /\ Family(w) = 14 /\ FieldKK(w) \in {\H9E, \HA1}
    /\ state.V[FieldX(w)] > 15

\* C17: every tick whose fetch or instruction would access RAM above 0xFFF,
\* and every Ex9E/ExA1 with V[x] > 15, halts the machine; the access does
\* not wrap around, is not ignored, and touches no other state: the only
\* RAM cells that change are in-range cells the instruction addresses.
C17_OutOfRangeHalts ==
    [][ TickStep =>
          /\ (state.pc + 1 > \HFFF) => (halted' /\ state' = state)
          /\ (CanFetch /\ (BadKey(NextWord)
                             \/ \E a \in Addressed(NextWord) : a > \HFFF)) =>
                /\ halted'
                /\ \A a \in 0..(RamSize - 1) :
                      state'.ram[a] # state.ram[a] => a \in Addressed(NextWord)
                /\ state'.I = state.I
                /\ state'.keys = state.keys ]_vars

\* P holds of every symbolic opcode with operands in range: registers
\* 0..15, bytes 0..255, nibbles 0..15, addresses 0..0xFFF.
ForAllOps(P(_)) ==
    /\ \A r \in 0..15, k \in 0..255 :
          P(LDRegByte(r, k)) /\ P(RNDRegByte(r, k))
    /\ \A r1 \in 0..15, r2 \in 0..15 :
          /\ P(LDRegReg(r1, r2)) /\ P(AddRegReg(r1, r2))
          /\ P(SubRegReg(r1, r2)) /\ P(SERegReg(r1, r2))
          /\ P(SNERegReg(r1, r2))
          /\ \A n \in 0..15 : P(DRWRegRegNibble(r1, r2, n))
    /\ \A r \in 0..15 :
          /\ P(LDFReg(r)) /\ P(LDIReg(r)) /\ P(LDRegI(r)) /\ P(LDDTReg(r))
          /\ P(LDRegDT(r)) /\ P(LDSTReg(r)) /\ P(LDRegKey(r))
    /\ \A n \in 0..4095 : P(LDIAddr(n)) /\ P(JP(n)) /\ P(CALL(n))
    /\ P(RET)

\* The word the opcode bit layout gives a symbolic opcode.
Layout(o) ==
    CASE o.op = "LDRegByte" -> \H6000 + o.a * 256 + o.b
      [] o.op = "LDRegReg" -> \H8000 + o.a * 256 + o.b * 16
      [] o.op = "AddRegReg" -> \H8000 + o.a * 256 + o.b * 16 + 4
      [] o.op = "SubRegReg" -> \H8000 + o.a * 256 + o.b * 16 + 5
      [] o.op = "SERegReg" -> \H5000 + o.a * 256 + o.b * 16
      [] o.op = "SNERegReg" -> \H9000 + o.a * 256 + o.b * 16
      [] o.op = "LDFReg" -> \HF000 + o.a * 256 + \H29
      [] o.op = "LDIReg" -> \HF000 + o.a * 256 + \H55
      [] o.op = "LDRegI" -> \HF000 + o.a * 256 + \H65
      [] o.op = "LDDTReg" -> \HF000 + o.a * 256 + \H15
      [] o.op = "LDRegDT" -> \HF000 + o.a * 256 + \H07
      [] o.op = "LDSTReg" -> \HF000 + o.a * 256 + \H18
      [] o.op = "LDRegKey" -> \HF000 + o.a * 256 + \H0A
      [] o.op = "LDIAddr" -> \HA000 + o.a
      [] o.op = "RNDRegByte" -> \HC000 + o.a * 256 + o.b
      [] o.op = "DRWRegRegNibble" -> \HD000 + o.a * 256 + o.b * 16 + o.c
      [] o.op = "JP" -> \H1000 + o.a
      [] o.op = "CALL" -> \H2000 + o.a
      [] o.op = "RET" -> \H00EE

\* The machine instruction a symbolic opcode names, applied to a machine.
Instruction(o, m, rnd) ==
    CASE o.op = "LDRegByte" -> OP_6xkk(m)
      [] o.op = "LDRegReg" -> OP_8xy0(m)
      [] o.op = "AddRegReg" -> OP_8xy4(m)
      [] o.op = "SubRegReg" -> OP_8xy5(m)
      [] o.op = "SERegReg" -> OP_5xy0(m)
      [] o.op = "SNERegReg" -> OP_9xy0(m)
      [] o.op = "LDFReg" -> OP_Fx29(m)
      [] o.op = "LDIReg" -> OP_Fx55(m)
      [] o.op = "LDRegI" -> OP_Fx65(m)
      [] o.op = "LDDTReg" -> OP_Fx15(m)
      [] o.op = "LDRegDT" -> OP_Fx07(m)
      [] o.op = "LDSTReg" -> OP_Fx18(m)
      [] o.op = "LDRegKey" -> OP_Fx0A(m)
      [] o.op = "LDIAddr" -> OP_Annn(m)
      [] o.op = "RNDRegByte" -> OP_Cxkk(m, rnd)
      [] o.op = "DRWRegRegNibble" -> OP_Dxyn(m)
      [] o.op = "JP" -> OP_1nnn(m)
      [] o.op = "CALL" -> OP_2nnn(m)
      [] o.op = "RET" -> OP_00EE(m)

\* The operand fields of the word w are the operands of the opcode o.
SameOperands(o, w) ==
    CASE o.op \in {"LDRegByte", "RNDRegByte"} ->
            FieldX(w) = o.a /\ FieldKK(w) = o.b
      [] o.op \in {"LDRegReg", "AddRegReg", "SubRegReg", "SERegReg",
                   "SNERegReg"} -> FieldX(w) = o.a /\ FieldY(w) = o.b
      [] o.op = "DRWRegRegNibble" ->
            FieldX(w) = o.a /\ FieldY(w) = o.b /\ FieldN(w) = o.c
      [] o.op \in {"LDIAddr", "JP", "CALL"} -> FieldNNN(w) = o.a
      [] o.op = "RET" -> TRUE
      [] OTHER -> FieldX(w) = o.a

\* The symbolic opcode a word stands for, read off the word the way the
\* machine decodes it: the top nibble, then the low nibble or low byte, and
\* the x, y, kk, n, nnn fields.  No opcode stands for the other words.
Named(w) ==
    LET f == Family(w) IN
    CASE f = 6 -> LDRegByte(FieldX(w), FieldKK(w))
      [] f = 8 /\ FieldN(w) = 0 -> LDRegReg(FieldX(w), FieldY(w))
      [] f = 8 /\ FieldN(w) = 4 -> AddRegReg(FieldX(w), FieldY(w))
      [] f = 8 /\ FieldN(w) = 5 -> SubRegReg(FieldX(w), FieldY(w))
      [] f = 5 /\ FieldN(w) = 0 -> SERegReg(FieldX(w), FieldY(w))
      [] f = 9 /\ FieldN(w) = 0 -> SNERegReg(FieldX(w), FieldY(w))
      [] f = 15 /\ FieldKK(w) = \H29 -> LDFReg(FieldX(w))
      [] f = 15 /\ FieldKK(w) = \H55 -> LDIReg(FieldX(w))
      [] f = 15 /\ FieldKK(w) = \H65 -> LDRegI(FieldX(w))
      [] f = 15 /\ FieldKK(w) = \H15 -> LDDTReg(FieldX(w))
      [] f = 15 /\ FieldKK(w) = \H07 -> LDRegDT(FieldX(w))
      [] f = 15 /\ FieldKK(w) = \H18 -> LDSTReg(FieldX(w))
      [] f = 15 /\ FieldKK(w) = \H0A -> LDRegKey(FieldX(w))
      [] f = 10 -> LDIAddr(FieldNNN(w))
      [] f = 12 -> RNDRegByte(FieldX(w), FieldKK(w))
      [] f = 13 -> DRWRegRegNibble(FieldX(w), FieldY(w), FieldN(w))
      [] f = 1 -> JP(FieldNNN(w))
      [] f = 2 -> CALL(FieldNNN(w))
      [] w = \H00EE -> RET
      [] OTHER -> [op |-> "none", a |-> 0, b |-> 0, c |-> 0]

\* Each opcode in range gets the word of the bit layout, and the opcode can
\* be read back from its word, so that no two opcodes get the same word.
HasLayoutWord(o) == opcode_to_u16(o) = Layout(o)
ReadsBack(o) == Named(opcode_to_u16(o)) = o
LayoutAgrees == ForAllOps(HasLayoutWord)
WordsDistinct == ForAllOps(ReadsBack)

\* The symbolic opcode the machine is about to fetch from a loaded assembly:
\* the program counter is at word k of the image the assembler produced.
AsmIndex == (state.pc - RomBase) \div 2 + 1
AtAssembledOp ==
    /\ rom = assembler.binary
    /\ Len(rom) = 2 * Len(assembler.asm)
    /\ state.pc % 2 = 0
    /\ state.pc >= RomBase
    /\ AsmIndex \in 1..Len(assembler.asm)

\* C18: for every symbolic opcode with operands in range, assemble() emits
\* exactly two bytes, high byte first, in opcode order, forming the word of
\* the opcode bit layout; the machine's decode of that word selects the
\* same instruction with the same operands; distinct symbolic opcodes yield
\* distinct words.
C18_AssembleDecodes ==
    [][ /\ lastOp' = "assemble" =>
              LET a == assembler.asm
                  old == Len(assembler.binary) IN
              /\ assembler'.asm = a
              /\ Len(assembler'.binary) = old + 2 * Len(a)
              /\ \A i \in 1..old : assembler'.binary[i] = assembler.binary[i]
              /\ \A i \in 1..Len(a) :
                    /\ assembler'.binary[old + 2 * i - 1] = Layout(a[i]) \div 256
                    /\ assembler'.binary[old + 2 * i] = Layout(a[i]) % 256
        /\ (TickStep /\ CanFetch /\ AtAssembledOp) =>
              LET o == assembler.asm[AsmIndex]
                  m == [Machine(state) EXCEPT !.opcode = NextWord,
                                              !.pc = state.pc + 2] IN
              /\ NextWord = Layout(o)
              /\ SameOperands(o, NextWord)
              /\ \E rnd \in 0..255 :
                    LET r == Instruction(o, m, rnd) IN
                    /\ halted' = r.panic
                    /\ state' = StateOf(IF r.panic THEN r ELSE DecTimers(r))
        /\ LayoutAgrees
        /\ WordsDistinct ]_vars

\* The machine has executed an assembled SUB V0,V1 after the three loads:
\* 200 - 100 with no borrow.
C18_Witness ==
    /\ lastOp = "tick" /\ ticks = 4 /\ ~halted
    /\ Len(assembler.asm) = 4
    /\ assembler.asm[4] = SubRegReg(0, 1)
    /\ assembler.binary = <<\H60, 200, \H61, 100, \H6F, 3, \H80, \H15>>
    /\ rom = assembler.binary
    /\ state.opcode = \H8015
    /\ state.V[0] = 100 /\ state.V[1] = 100 /\ state.V[15] = 1


\* The var declarations of a token vector outside every brace pair: the
\* globals, which no block end removes.
BraceDepth(tokens, i) ==
    Cardinality({ j \in 1..(i - 1) : tokens[j].type = "LeftBrace" })
        - Cardinality({ j \in 1..(i - 1) : tokens[j].type = "RightBrace" })
GlobalVars(tokens) ==
    Cardinality({ i \in 1..Len(tokens) :
                    tokens[i].type = "Var" /\ BraceDepth(tokens, i) = 0 })

\* compile() has returned (it did not panic).
Compiled == lastOp = "compile" /\ ~compiler.panic

\* C19: for every program compile() accepts, reg_stack_top after compile()
\* is the number of global var declarations of the program: 0 for a program
\* of expression statements only, comparisons included, and unchanged by an
\* if or a while statement whatever its condition is.
C19_RegStackTopCountsGlobals ==
    Compiled => compiler.reg_stack_top = GlobalVars(compiler.tokens)

\* C20: when compile() returns, every JP of the program, each emitted as the
\* placeholder JP(0), holds a target 0x200 + 2k with 1 <= k <= |asm|: none is
\* still JP(0) and none aims beyond the address just after the last
\* instruction.
C20_JumpsPatched ==
    Compiled =>
        \A i \in 1..Len(compiler.asm) :
            compiler.asm[i].op = "JP" =>
                \E k \in 1..Len(compiler.asm) :
                    compiler.asm[i].a = RomBase + 2 * k

\* The words of the instruction set's list: 00E0, 00EE, 1nnn, 2nnn, 3xkk,
\* 4xkk, 5xy0, 6xkk, 7xkk, 8xy0..8xy7, 8xyE, 9xy0, Annn, Bnnn, Cxkk, Dxyn,
\* Ex9E, ExA1 and Fx07, Fx0A, Fx15, Fx18, Fx1E, Fx29, Fx33, Fx55, Fx65.
Listed(w) ==
    LET f == Family(w) IN
    \/ w \in {\H00E0, \H00EE}
    \/ f \in {1, 2, 3, 4, 6, 7, 10, 11, 12, 13}
    \/ f \in {5, 9} /\ FieldN(w) = 0
    \/ f = 8 /\ FieldN(w) \in (0..7) \cup {14}
    \/ f = 14 /\ FieldKK(w) \in {\H9E, \HA1}
    \/ f = 15 /\ FieldKK(w) \in {\H07, \H0A, \H15, \H18, \H1E, \H29, \H33,
                                 \H55, \H65}

\* The state is the one a disassemble() call left.
Disassembled == lastOp = "disassemble"

\* C21: disassemble() renders "null" for every word that is not a listed
\* opcode, and a mnemonic only for listed opcodes.
C21_UnknownRendersNull ==
    Disassembled =>
        \A a \in DOMAIN disasm_map :
            (disasm_map[a] = "null") <=> ~Listed(WordAt(state.ram, a))

\* The even addresses from 0x200 to 0xFFE
DisasmAddresses == { a \in RomBase..(RamSize - 1) : a % 2 = 0 }

\* C22: whatever the RAM holds, disassemble() ends without error, leaves the
\* VM state unchanged, and leaves the map with exactly one entry for each
\* even address from 0x200 to 0xFFE (1792 entries), the entry of an address
\* describing the word now at that address.
C22_DisassembleTotal ==
    [][ lastOp' = "disassemble" =>
            /\ ~halted'
            /\ state' = state
            /\ DOMAIN disasm_map' = DisasmAddresses
            /\ Cardinality(DOMAIN disasm_map') = 1792
            /\ \A a \in DisasmAddresses :
                   disasm_map'[a] = get_disasm(WordAt(state'.ram, a)).text
      ]_vars

\* The operands of the emitted opcode o fit the fields they are encoded in.
OperandsFit(o) ==
    /\ o.op \in {"LDRegByte", "RNDRegByte"} => o.b \in 0..255
    /\ o.op \in {"LDIAddr", "JP", "CALL"} => o.a \in 0..4095
    /\ o.op = "DRWRegRegNibble" => o.c \in 1..15
\* The source has a number literal beyond the range of the operand it is
\* written for: the height of a DRAW, the address of I, a byte elsewhere.
TypeAt(tokens, i) == IF i \in 1..Len(tokens) THEN tokens[i].type ELSE ""
LiteralFits(tokens, i) ==
    IF TypeAt(tokens, i + 1) = "RightParen" /\ TypeAt(tokens, i - 1) = "Comma"
    THEN tokens[i].num \in 1..15
    ELSE IF TypeAt(tokens, i - 1) = "Equals" /\ TypeAt(tokens, i - 2) = "I"
    THEN tokens[i].num \in 0..4095
    ELSE tokens[i].num \in 0..255
LiteralsFit(tokens) ==
    \A i \in 1..Len(tokens) :
        tokens[i].type = "Number" => LiteralFits(tokens, i)

\* C23: every opcode the compiler emits has operands that fit their encoding
\* fields (bytes in 0..255, addresses in 0..0xFFF, DRAW heights in 1..15),
\* and a source literal outside these ranges is rejected by compile()
\* rather than emitted.
C23_OperandsFit ==
    lastOp = "compile" =>
        /\ ~compiler.panic =>
               \A i \in 1..Len(compiler.asm) : OperandsFit(compiler.asm[i])
        /\ ~LiteralsFit(compiler.tokens) => compiler.panic

\* The register operands of an emitted opcode
RegOperands(o) ==
    CASE o.op \in {"LDRegReg", "AddRegReg", "SubRegReg", "SERegReg",
                   "SNERegReg", "DRWRegRegNibble"} -> {o.a, o.b}
      [] o.op \in {"LDRegByte", "RNDRegByte", "LDFReg", "LDIReg", "LDRegI",
                   "LDDTReg", "LDRegDT", "LDSTReg", "LDRegKey"} -> {o.a}
      [] OTHER -> {}
\* The opcodes push_frame and pop_frame emit
FrameOpcodes ==
    { LDFReg(13), LDIReg(13), LDRegByte(14, 3), AddRegReg(13, 14),
      SubRegReg(13, 14), LDRegI(13) }

AllocatedBelow13 ==
    \A i \in 1..Len(compiler.asm) :
        compiler.asm[i] \notin FrameOpcodes =>
            RegOperands(compiler.asm[i]) \subseteq 0..12

ReservedToken ==
    ("DT" :> "DT") @@ ("ST" :> "ST") @@ ("I" :> "I") @@ ("RAND" :> "Rand")
        @@ ("DRAW" :> "Draw") @@ ("KEY" :> "Key") @@ ("true" :> "True")
        @@ ("false" :> "False") @@ ("if" :> "If") @@ ("else" :> "Else")
        @@ ("and" :> "And") @@ ("or" :> "Or") @@ ("var" :> "Var")
        @@ ("while" :> "While") @@ ("not" :> "Not") @@ ("fn" :> "Fn")
\* The token a whole word is to lex to
WordToken(w) ==
    IF w \in DOMAIN ReservedToken THEN TokenType(ReservedToken[w])
    ELSE Identifier(w)
\* The words of a source, in order: its maximal runs of letters and digits
\* (the sources of SpecLex that have words start each with a letter)
RECURSIVE WordsFrom(_, _, _)
WordsFrom(src, i, word) ==
    IF i > Len(src) THEN (IF word = "" THEN <<>> ELSE <<word>>)
    ELSE IF is_alphanumeric(SubSeq(src, i, i))
    THEN WordsFrom(src, i + 1, word \o SubSeq(src, i, i))
    ELSE (IF word = "" THEN <<>> ELSE <<word>>) \o WordsFrom(src, i + 1, "")
\* The word tokens among the tokens, without their line
IsWordToken(t) ==
    t.type = "Identifier" \/ \E w \in DOMAIN ReservedToken :
                                 t.type = ReservedToken[w]
WordTokens(tokens) ==
    LET ts == SelectSeq(tokens, IsWordToken) IN
    [i \in 1..Len(ts) |-> [type |-> ts[i].type, num |-> ts[i].num,
                           name |-> ts[i].name]]
\* lex() has returned on a source made of words and separators
LexedWords == lastOp = "lex" /\ ~lexer.panic /\ lexer.src \in WordRows(MaxWords)

\* C25: each reserved name that is a whole word of the source lexes to its
\* keyword or built-in token, never to an Identifier; every other word lexes
\* to Identifier(text).
C25_ReservedWords ==
    LexedWords =>
        LET ws == WordsFrom(lexer.src, 1, "") IN
        WordTokens(lexer.tokens) = [i \in 1..Len(ws) |-> WordToken(ws[i])]


---------------------------------------------------------------------------
(* if statements, run *)

\* The machine runs the binary assembled from the compiled program.
RunningCompiled ==
    /\ lastOp \in {"load", "tick"}
    /\ ~halted
    /\ ~compiler.panic
    /\ rom = assembler.binary
    /\ assembler.asm = compiler.asm

\* Address of the k-th emitted instruction, and the instructions at addresses
AddrOf(k) == RomBase + 2 * (k - 1)
AddrsOf(ks) == { AddrOf(k) : k \in ks }
JPs == { k \in DOMAIN compiler.asm : compiler.asm[k].op = "JP" }
FirstJP == CHOOSE k \in JPs : \A j \in JPs : k <= j
LastJP == CHOOSE k \in JPs : \A j \in JPs : j <= k

\* Value of an operand of the comparison when the condition is evaluated
\* (r holds 0), and the value of the comparison at tokens i..i+2
OperandValue(t) == IF t.type = "Number" THEN t.num ELSE 0
ComparisonHolds(tokens, i) ==
    IF tokens[i + 1].type = "EqualsEquals"
    THEN OperandValue(tokens[i]) = OperandValue(tokens[i + 2])
    ELSE OperandValue(tokens[i]) # OperandValue(tokens[i + 2])

\* The if programs: condition at token 8, the trailing statement is the last
\* instruction.
IfHasElse == \E i \in DOMAIN compiler.tokens : compiler.tokens[i].type = "Else"
IfHolds == ComparisonHolds(compiler.tokens, 8)
IfAfter == Len(compiler.asm)
IfThen == IF IfHasElse THEN (FirstJP + 1)..(LastJP - 1)
          ELSE (FirstJP + 1)..(IfAfter - 1)
IfElse == IF IfHasElse THEN (LastJP + 1)..(IfAfter - 1) ELSE {}
IfResult == IF IfHolds THEN 5 ELSE IF IfHasElse THEN 9 ELSE 0

IfJumpTargets ==
    /\ Cardinality(JPs) = (IF IfHasElse THEN 2 ELSE 1)
    /\ IfThen # {}
    /\ IfHasElse =>
         /\ compiler.asm[FirstJP].a = AddrOf(LastJP + 1)
         /\ IfElse # {}
         /\ compiler.asm[LastJP].a = AddrOf(IfAfter)
    /\ ~IfHasElse => compiler.asm[FirstJP].a = AddrOf(IfAfter)

IfRuns ==
    /\ state.pc \in AddrsOf(IfThen) => IfHolds
    /\ state.pc \in AddrsOf(IfElse) => ~IfHolds
    /\ state.pc = AddrOf(IfAfter) => state.V[0] = IfResult
    /\ ticks >= Len(compiler.asm) =>
         state.pc > AddrOf(IfAfter) /\ state.V[0] = IfResult

\* C26: an if statement on == or != runs T and not E exactly when the
\* comparison holds, E and not T otherwise, and continues after E; with else
\* the first JP targets the instruction after the second JP and the second
\* JP the instruction after E, without else the JP targets the instruction
\* after T.
C26_IfRuns ==
    /\ (Compiled /\ compiler.tokens \in IfPrograms) => IfJumpTargets
    /\ (RunningCompiled /\ compiler.tokens \in IfPrograms) =>
            IfJumpTargets /\ IfRuns

C26_Witness ==
    /\ RunningCompiled
    /\ compiler.tokens \in IfPrograms
    /\ IfHasElse
    /\ ~IfHolds
    /\ state.pc = AddrOf(IfAfter)
    /\ state.V[0] = 9
    /\ compiler.tokens[8].type = "Identifier"


---------------------------------------------------------------------------
(* while loops, run *)

\* The counting loop: the condition starts at the first read of a (the
\* instruction after the declaration's), the exit JP is the first JP, the back
\* JP the last one.
WhileCount == compiler.tokens[4].num
WhileStart ==
    CHOOSE k \in DOMAIN compiler.asm :
        /\ compiler.asm[k].op = "LDRegReg"
        /\ \A j \in 1..(k - 1) : compiler.asm[j].op # "LDRegReg"
WhileBody == (FirstJP + 1)..(LastJP - 1)
WhileAfter == LastJP + 1
\* clock() calls of one pass through condition, body and back JP, and of the
\* last pass through the condition and the exit JP
WhilePassTicks == LastJP - WhileStart
WhileExitTicks == FirstJP - WhileStart + 1

WhileJumpTargets ==
    /\ Cardinality(JPs) = 2
    /\ LastJP = Len(compiler.asm)
    /\ WhileBody # {}
    /\ compiler.asm[LastJP].a = AddrOf(WhileStart)
    /\ compiler.asm[FirstJP].a = AddrOf(WhileAfter)

\* Every pass takes WhilePassTicks calls of clock(), so the calls made when
\* the condition is reached count the passes through the body.
WhileRuns ==
    /\ state.pc <= AddrOf(WhileAfter)
    /\ state.pc = AddrOf(WhileStart) =>
         /\ state.V[0] <= WhileCount
         /\ ticks = 1 + (WhileCount - state.V[0]) * WhilePassTicks
    /\ state.pc \in AddrsOf(WhileBody) => state.V[0] > 0
    /\ state.pc = AddrOf(WhileAfter) =>
         /\ state.V[0] = 0
         /\ ticks = 1 + WhileCount * WhilePassTicks + WhileExitTicks
    /\ ticks >= 1 + WhileCount * WhilePassTicks + WhileExitTicks =>
         state.pc = AddrOf(WhileAfter)

\* C27: in a while loop the back JP targets the first instruction of the
\* condition and the exit JP the instruction after the back JP; the
\* counting loop from N runs its body exactly N times and then reaches the
\* instruction after the loop with a's register 0.
C27_WhileRuns ==
    /\ (Compiled /\ compiler.tokens \in WhilePrograms) => WhileJumpTargets
    /\ (RunningCompiled /\ compiler.tokens \in WhilePrograms) =>
            WhileJumpTargets /\ WhileRuns

C27_Witness ==
    /\ RunningCompiled
    /\ compiler.tokens = WhileOf(255)
    /\ state.pc = AddrOf(WhileAfter)
    /\ state.V[0] = 0
    /\ ticks = 1 + 255 * 8 + 4


---------------------------------------------------------------------------
(* and / or conditions, run *)

\* The chain programs: the condition starts at token 8; comparison i is at
\* tokens 8 + 4 (i - 1) .. + 2 and the connective after it at + 3.
ChainClose ==
    CHOOSE p \in DOMAIN compiler.tokens :
        /\ compiler.tokens[p].type = "RightParen"
        /\ \A q \in 1..(p - 1) : compiler.tokens[q].type # "RightParen"
ChainLen == (ChainClose - 8 + 1) \div 4
ChainAt(i) == 8 + 4 * (i - 1)
ChainConnective(i) == compiler.tokens[ChainAt(i) + 3].type
ChainIsWhile == compiler.tokens[6].type = "While"

\* Value of a comparison now: r is in V0
OperandNow(t) == IF t.type = "Number" THEN t.num ELSE state.V[0]
ChainTrue(i) ==
    IF compiler.tokens[ChainAt(i) + 1].type = "EqualsEquals"
    THEN OperandNow(compiler.tokens[ChainAt(i)])
            = OperandNow(compiler.tokens[ChainAt(i) + 2])
    ELSE OperandNow(compiler.tokens[ChainAt(i)])
            # OperandNow(compiler.tokens[ChainAt(i) + 2])

\* and binds tighter than or: the chain is a disjunction of groups of
\* comparisons joined by and
GroupStarts == { i \in 1..ChainLen : i = 1 \/ ChainConnective(i - 1) = "Or" }
GroupStart(i) == CHOOSE s \in GroupStarts :
                    s <= i /\ \A u \in GroupStarts : u <= i => u <= s
GroupOf(s) == { i \in 1..ChainLen : GroupStart(i) = s }
GroupTrue(s) == \A i \in GroupOf(s) : ChainTrue(i)
ChainValue == \E s \in GroupStarts : GroupTrue(s)
\* comparison i is reached by short-circuit evaluation from the left: the
\* groups before its own are false and the comparisons before it in its
\* group are true
ChainEvaluates(i) ==
    /\ \A s \in GroupStarts : s < GroupStart(i) => ~GroupTrue(s)
    /\ \A j \in GroupStart(i)..(i - 1) : ChainTrue(j)

\* Layout of the emitted code: declaration, then per comparison three
\* instructions, followed by one JP (and) or two (or); then the exit JP of
\* the statement, the branch, the back JP of a while, the trailing statement.
JumpsAfter(i) == IF ChainConnective(i) = "And" THEN 1 ELSE 2
RECURSIVE ChainStart(_)
ChainStart(i) ==
    IF i = 1 THEN 2 ELSE ChainStart(i - 1) + 3 + JumpsAfter(i - 1)
ChainExit == ChainStart(ChainLen) + 3
ChainBranch == ChainExit + 1
ChainAfter == Len(compiler.asm)
ChainLayout ==
    /\ \A i \in 1..ChainLen :
         /\ compiler.asm[ChainStart(i)].op \in {"LDRegByte", "LDRegReg"}
         /\ compiler.asm[ChainStart(i) + 1].op = "LDRegByte"
         /\ compiler.asm[ChainStart(i) + 2].op =
               (IF compiler.tokens[ChainAt(i) + 1].type = "EqualsEquals"
                THEN "SERegReg" ELSE "SNERegReg")
         /\ i < ChainLen =>
              \A k \in 1..JumpsAfter(i) :
                  compiler.asm[ChainStart(i) + 2 + k].op = "JP"
    /\ compiler.asm[ChainExit].op = "JP"
    /\ compiler.asm[ChainExit].a = AddrOf(ChainAfter)
    /\ ChainBranch < ChainAfter
    /\ compiler.asm[ChainBranch] = LDRegByte(1, 5)

ChainRuns ==
    /\ \A i \in 1..ChainLen :
         state.pc = AddrOf(ChainStart(i)) => ChainEvaluates(i)
    /\ state.pc = AddrOf(ChainBranch) => ChainValue
    /\ state.pc = AddrOf(ChainAfter) =>
         IF ChainIsWhile THEN ~ChainValue
         ELSE state.V[0] = (IF ChainValue THEN 5 ELSE 0)
    /\ (~ChainIsWhile /\ ticks >= Len(compiler.asm)) =>
         /\ state.pc > AddrOf(ChainAfter)
         /\ state.V[0] = (IF ChainValue THEN 5 ELSE 0)

\* C28: a condition that chains == / != comparisons with and / or enters the
\* branch exactly when the combination is true, and binding tighter than
\* or, and a comparison to the right of a false and-operand or of a true
\* or-operand is not executed.
C28_ChainRuns ==
    /\ (Compiled /\ compiler.tokens \in LogicPrograms) => ChainLayout
    /\ (RunningCompiled /\ compiler.tokens \in LogicPrograms) =>
            ChainLayout /\ ChainRuns

C28_Witness ==
    /\ RunningCompiled
    /\ compiler.tokens \in LogicIfPrograms
    /\ ChainLen = 3
    /\ ChainConnective(1) = "And" /\ ChainConnective(2) = "Or"
    /\ ~ChainTrue(1) /\ ChainTrue(2) /\ ChainTrue(3)
    /\ state.pc = AddrOf(ChainAfter)
    /\ state.V[0] = 5


---------------------------------------------------------------------------
(* block scopes *)

\* The block programs: the variables declared before the block, the names
\* declared inside it, and whether var c = 7; follows it.
OuterCount ==
    Cardinality({ i \in DOMAIN compiler.tokens :
        /\ compiler.tokens[i].type = "Var"
        /\ \A j \in 1..i : compiler.tokens[j].type # "LeftBrace" })
BlockHasTail ==
    compiler.tokens[Len(compiler.tokens) - 1].type = "Semicolon"
BlockNames == {"b", "d", "e", "x"}

\* What the claim says of the compiler after the block (and the declaration
\* after it): the outer variables are all that is left, in their registers;
\* the names of the block do not resolve; reg_stack_top is back at the
\* number of outer variables; var c takes the first freed register.
BlockClosed ==
    /\ compiler.scope_depth = 0
    /\ \A name \in BlockNames :
         ~lookup_variable_register(compiler, name).found
    /\ \A k \in 1..OuterCount :
         /\ compiler.variables[k] = Variable_new(OuterNames[k], k - 1, 0)
         /\ lookup_variable_register(compiler, OuterNames[k]).found
         /\ lookup_variable_register(compiler, OuterNames[k]).reg_index = k - 1
    /\ IF BlockHasTail
       THEN /\ Len(compiler.variables) = OuterCount + 1
            /\ compiler.variables[OuterCount + 1]
                  = Variable_new("c", OuterCount, 0)
            /\ compiler.reg_stack_top = OuterCount + 1
            /\ compiler.asm[Len(compiler.asm)] = LDRegByte(OuterCount, 7)
       ELSE /\ Len(compiler.variables) = OuterCount
            /\ compiler.reg_stack_top = OuterCount

---------------------------------------------------------------------------
(* function scopes *)

\* The function programs: the parameters of f, the variables declared before
\* it (all before the first Fn token), the statement after it.
FnAt == CHOOSE i \in DOMAIN compiler.tokens :
            /\ compiler.tokens[i].type = "Fn"
            /\ \A j \in 1..(i - 1) : compiler.tokens[j].type # "Fn"
FnOuterCount ==
    Cardinality({ i \in 1..FnAt : compiler.tokens[i].type = "Var" })
FnOuterNames == { OuterNames[k] : k \in 1..FnOuterCount }
FnTailIsVar == compiler.tokens[Len(compiler.tokens) - 2].num = 7
FnTailIsRead ==
    /\ compiler.tokens[Len(compiler.tokens) - 1].type = "Semicolon"
    /\ compiler.tokens[Len(compiler.tokens) - 2].type = "Identifier"

\* What the claim says of the compiler after the declaration (and the
\* statement after it): the variable list, scope_depth and reg_stack_top are
\* those of the outer variables; names of parameters and body variables that
\* are not outer variables do not resolve; r read after the function is the
\* global r.
FnClosed ==
    /\ compiler.scope_depth = 0
    /\ \A name \in {"x", "y", "r", "b"} \ FnOuterNames :
         ~lookup_variable_register(compiler, name).found
    /\ \A k \in 1..FnOuterCount :
         /\ compiler.variables[k] = Variable_new(OuterNames[k], k - 1, 0)
         /\ lookup_variable_register(compiler, OuterNames[k]).found
         /\ lookup_variable_register(compiler, OuterNames[k]).reg_index = k - 1
    /\ IF FnTailIsVar
       THEN /\ Len(compiler.variables) = FnOuterCount + 1
            /\ compiler.variables[FnOuterCount + 1]
                  = Variable_new("c", FnOuterCount, 0)
            /\ compiler.reg_stack_top = FnOuterCount + 1
       ELSE /\ Len(compiler.variables) = FnOuterCount
            /\ compiler.reg_stack_top = FnOuterCount
    /\ FnTailIsRead =>
         compiler.asm[Len(compiler.asm)] = LDRegReg(FnOuterCount, 1)

\* C30: after a function declaration has been compiled the variable list,
\* scope_depth and reg_stack_top are what they were before it; parameters
\* and body variables no longer resolve, a global of a parameter's name
\* resolves to the global's register, and closing an enclosing block
\* removes no parameter entry.
C30_FnRestores ==
    (Compiled /\ compiler.tokens \in FnPrograms) => FnClosed

---------------------------------------------------------------------------
(* Programs with function calls, run on the machine *)

\* fn name(params) { body }        name(args);
FnNamed(name, names, body) ==
    <<Tk("Fn"), Id(name), Tk("LeftParen")>> \o ParamList(names)
        \o <<Tk("RightParen")>> \o Braces(body)
CallOf(name, args) ==
    <<Id(name), Tk("LeftParen")>> \o args \o <<Tk("RightParen"), Tk("Semicolon")>>
\* fn f(n) { if (n != 0) f(n - 1); }    f(d);   : d + 1 calls, each inside
\* the one before
MaxCallDepth == 16
CallDepths == {0, 1, 4, 5, MaxCallDepth - 1, MaxCallDepth}
FnCountDown ==
    FnNamed("f", <<"n">>,
            <<Tk("If"), Tk("LeftParen"), Id("n"), Tk("NotEquals"), Num(0),
              Tk("RightParen")>>
                \o CallOf("f", <<Id("n"), Tk("Minus"), Num(1)>>))
CallPrograms ==
    { p \o <<Tk("EndOfFile")>> : p \in
        { \* fn f() { } 7;
          FnNamed("f", <<>>, <<>>) \o <<Num(7), Tk("Semicolon")>>,
          \* var a = 1; fn f() { a = 5; } a;
          VarOf("a", 1)
              \o FnNamed("f", <<>>, <<Id("a"), Tk("Equals"), Num(5),
                                      Tk("Semicolon")>>)
              \o <<Id("a"), Tk("Semicolon")>>,
          \* fn f() { } f();
          FnNamed("f", <<>>, <<>>) \o CallOf("f", <<>>),
          \* var a = 1; fn f() { var b = 4; var d = 5; var e = 6; var g = 7; } f(); a;
          VarOf("a", 1)
              \o FnNamed("f", <<>>, VarOf("b", 4) \o VarOf("d", 5)
                                        \o VarOf("e", 6) \o VarOf("g", 7))
              \o CallOf("f", <<>>) \o <<Id("a"), Tk("Semicolon")>>,
          \* fn f() { } fn g() { f(); } g(); f();
          FnNamed("f", <<>>, <<>>) \o FnNamed("g", <<>>, CallOf("f", <<>>))
              \o CallOf("g", <<>>) \o CallOf("f", <<>>),
          \* fn f(x, y) { x = y; } f(1, 2);
          FnNamed("f", <<"x", "y">>, <<Id("x"), Tk("Equals"), Id("y"),
                                       Tk("Semicolon")>>)
              \o CallOf("f", <<Num(1), Tk("Comma"), Num(2)>>),
          \* fn f() { f(); } f();
          FnNamed("f", <<>>, CallOf("f", <<>>)) \o CallOf("f", <<>>) }
        \cup { FnCountDown \o CallOf("f", <<Num(d)>>) : d \in CallDepths } }

\* clock() calls on a compiled program with calls
MaxCallTicks == 400
NewFromLexerCall == NewFromLexerWith(CallPrograms)
\* the run is followed until pc leaves the loaded program
TickCall == state.pc < RomBase + Len(rom) /\ TickLoaded(MaxCallTicks)
NextCall ==
    \/ NewFromLexerCall \/ CompileOnce \/ NewFromCompiled \/ AssembleOnce
    \/ LoadAssembled \/ TickCall
SpecCall == Init /\ [][NextCall]_vars

\* The n-th member (from 1) of a set of indices, in increasing order
NthOf(S, n) == CHOOSE k \in S : Cardinality({ j \in S : j <= k }) = n
RankIn(S, k) == Cardinality({ j \in S : j <= k })

\* The function declarations of the compiled program, in source order: the
\* Fn tokens, and the JPs whose target follows a RET (the JPs of if and
\* while target an instruction of the statement or the one after it).
OpIndices(op) == { k \in DOMAIN compiler.asm : compiler.asm[k].op = op }
FnTokens == { i \in DOMAIN compiler.tokens : compiler.tokens[i].type = "Fn" }
FnJPs ==
    { k \in JPs : \E r \in OpIndices("RET") : compiler.asm[k].a = AddrOf(r) + 2 }
FnNameOf(n) == compiler.tokens[NthOf(FnTokens, n) + 1].name
FnRET(k) ==
    CHOOSE r \in OpIndices("RET") :
        r > k /\ \A j \in OpIndices("RET") : j > k => r <= j
\* The addresses of the body of the n-th function, prologue to RET
FnBodyAddrs(n) ==
    { AddrOf(j) : j \in (NthOf(FnJPs, n) + 1)..FnRET(NthOf(FnJPs, n)) }
\* The call sites in source order: an identifier before "(" that no fn
\* precedes; no call of these programs is an argument of another
CallSites ==
    { i \in DOMAIN compiler.tokens :
        /\ compiler.tokens[i].type = "Identifier"
        /\ i < Len(compiler.tokens)
        /\ compiler.tokens[i + 1].type = "LeftParen"
        /\ (i > 1 => compiler.tokens[i - 1].type # "Fn") }
\* compile() has returned on the program
HasCompiled ==
    lastOp # "new_from_lexer" /\ compiler.tokens # <<>> /\ ~compiler.panic
\* the machine runs the compiled program
RunsCompiled == HasCompiled /\ rom # <<>> /\ rom = assembler.binary

FnLayout ==
    HasCompiled =>
        /\ Cardinality(FnJPs) = Cardinality(FnTokens)
        /\ \A n \in 1..Cardinality(FnTokens) :
             /\ FnNameOf(n) \in DOMAIN compiler.functions
             /\ compiler.functions[FnNameOf(n)].start_addr
                    = AddrOf(NthOf(FnJPs, n)) + 2
             /\ compiler.asm[NthOf(FnJPs, n)].a
                    = AddrOf(FnRET(NthOf(FnJPs, n))) + 2
        /\ Cardinality(OpIndices("CALL")) = Cardinality(CallSites)
        /\ \A k \in OpIndices("CALL") :
             compiler.asm[k].a =
                 compiler.functions[
                     compiler.tokens[NthOf(CallSites,
                                           RankIn(OpIndices("CALL"), k))].name
                 ].start_addr
\* A tick takes pc into the body of a function only by a CALL of its
\* start_addr, or by the RET of a call made in the body.
EntersByCall ==
    (lastOp' = "tick" /\ ~halted' /\ RunsCompiled) =>
        \A n \in 1..Cardinality(FnTokens) :
            (state.pc \notin FnBodyAddrs(n) /\ state'.pc \in FnBodyAddrs(n)) =>
                \/ /\ Family(state'.opcode) = 2
                   /\ state'.pc = compiler.functions[FnNameOf(n)].start_addr
                \/ /\ state'.opcode = 238
                   /\ Family(WordAt(state'.ram, state'.pc - 2)) = 2

\* C31: every function's start_addr is the address after its leading JP,
\* the JP targets the instruction after the function's RET, every CALL of
\* the function targets start_addr, and on the machine pc enters a body
\* only by such a CALL: execution reaching a declaration skips the body.
C31_FnSkipped == []FnLayout /\ [][EntersByCall]_vars
\* A run that stepped over the declaration by its leading JP has entered the
\* body by a CALL and now enters it again by a CALL made inside the body.
C31_Witness ==
    /\ RunsCompiled /\ lastOp = "tick" /\ ~halted
    /\ Family(state.opcode) = 2
    /\ Len(calls) >= 2
    /\ \E n \in 1..Cardinality(FnTokens) :
         /\ state.stack[state.sp - 1] - 2 \in FnBodyAddrs(n)
         /\ state.pc = compiler.functions[FnNameOf(n)].start_addr

---------------------------------------------------------------------------
(* The call frame on the machine *)

\* The addresses of the n-th instruction (from 0) of the call prologues, and
\* of the n-th of the four instructions before the RET of the epilogues
PrologueAt(n) == { p + 2 * n : p \in PrologueStarts }
EpilogueAt(n) == { AddrOf(r) - 8 + 2 * n : r \in OpIndices("RET") }
PrologueAddrs == UNION { PrologueAt(n) : n \in 0..3 }
EpilogueAddrs == UNION { EpilogueAt(n) : n \in 0..3 }
\* A tick of the loaded compiled program that has not panicked
CompiledTick == lastOp' = "tick" /\ ~halted' /\ RunsCompiled
\* The call the executing code belongs to, once its prologue has started
Innermost == calls'[Len(calls')]
\* RAM after the registers V0..Vlast were written at 5 * k
FrameWritten(k, last) ==
    [a \in DOMAIN state.ram |->
        IF a \in (5 * k)..(5 * k + last) THEN state.V[a - 5 * k]
        ELSE state.ram[a]]
\* The registers after V0..Vlast were read from 5 * k
FrameRead(k, last) ==
    [i \in DOMAIN state.V |->
        IF i <= last THEN state.ram[5 * k + i] ELSE state.V[i]]
StoresFrame == state.pc \in PrologueAt(1)
LoadsFrame == state.pc \in EpilogueAt(3)

\* The prologue writes V0..Vlast to RAM[5k..5k+last], k being V13 before
\* the prologue, and no other byte, and leaves k + 3 in V13; the epilogue
\* takes V13 back to k, reads V0..Vlast from RAM[5k..5k+last] and changes no
\* other register of V0..V12.
FrameOf(last) ==
    CompiledTick =>
        /\ state.pc \in PrologueAddrs =>
             /\ state.V[13] = Innermost.V13
             /\ state'.V[13] = Innermost.V13
                                   + (IF state.pc \in PrologueAt(3) THEN 3 ELSE 0)
             /\ state'.ram = IF StoresFrame
                             THEN FrameWritten(Innermost.V13, last)
                             ELSE state.ram
        /\ state.pc \in EpilogueAddrs =>
             /\ state'.V[13] = calls[Len(calls)].V13
                                   + (IF state.pc \in EpilogueAt(0) THEN 3 ELSE 0)
             /\ state'.ram = state.ram
             /\ \A i \in 0..12 :
                  state'.V[i] =
                      IF LoadsFrame
                      THEN FrameRead(calls[Len(calls)].V13, last)[i]
                      ELSE state.V[i]

\* C32 as claimed: the prologue writes exactly V0, V1, V2 to RAM[5k..5k+2],
\* the epilogue loads exactly V0, V1, V2 back.
C32_FrameOfThree == [][FrameOf(2)]_vars
\* C32: executed with V13 = k, the prologue writes exactly the fourteen
\* bytes V0..V13 to RAM[5k..5k+13] and no other RAM byte, and the epilogue
\* loads exactly V0..V13 back from RAM[5k..5k+13], V13 being decremented by 3
\* before.
C32_FrameOfFourteen == [][FrameOf(13)]_vars
\* The epilogue of a call made inside another call has read its frame back.
C32_Witness ==
    /\ RunsCompiled /\ lastOp = "tick" /\ ~halted
    /\ state.opcode = 64869
    /\ Len(calls) = 2
    /\ state.V[13] = 3
    /\ state.I = 29

\* V13 and the number of calls in progress stay within the bounds given
FramePointerWithin(maxV13, maxDepth) ==
    RunsCompiled => state.V[13] <= maxV13 /\ state.sp <= maxDepth
\* A run of the compiled program panics only in a CALL that finds the 16
\* entries of the call stack in use.
StoppedByCallStack ==
    (RunsCompiled /\ halted /\ lastOp = "tick") =>
        /\ Family(state.opcode) = 2
        /\ state.sp = 16
        /\ Len(calls) = 17

BalancedCall ==
    CompiledTick =>
        /\ Family(state'.opcode) = 2 =>
             /\ state'.V[13] = Innermost.V13 + 3
             /\ state'.sp = Innermost.sp + 1
             /\ Innermost.ret = state.pc + 2
        /\ state.pc \in EpilogueAt(0) =>
             /\ state.V[13] = calls[Len(calls)].V13 + 3
             /\ state.sp = calls[Len(calls)].sp + 1
        /\ state'.opcode = 238 =>
             /\ state'.pc = calls[Len(calls)].ret
             /\ Family(WordAt(state'.ram, state'.pc - 2)) = 2
             /\ state'.sp = calls[Len(calls)].sp
             /\ state'.V[13] = calls[Len(calls)].V13
             /\ Len(calls') = Len(calls) - 1

\* C34: every compiled call is balanced on the machine: after the callee's
\* RET pc is the instruction after the CALL, sp and V13 are what they were
\* just before the call prologue (V13 was 3 more in the callee), for calls
\* nested up to the 16 the call stack allows.
C34_BalancedCall == [][BalancedCall]_vars
\* The sixteenth of sixteen nested calls has returned.
C34_Witness ==
    /\ RunsCompiled /\ lastOp = "tick" /\ ~halted
    /\ state.opcode = 238
    /\ state.sp = 15
    /\ state.V[13] = 45
    /\ Len(calls) = 15

---------------------------------------------------------------------------
(* Assignments and the precedence of their context *)

\* var a = 3;  followed by an assignment that is a statement,
\*     a = 5;   DT = a;   ST = 1 + 2;   ...
\* or by an assignment whose target is the right operand of an operator,
\*     1 + a = 5;   a == DT = 5;   1 or ST = 5;   ...
AssignTargets == { Id("a"), Tk("DT"), Tk("ST") }
AssignValues == { <<Num(5)>>, <<Id("a")>>, <<Num(1), Tk("Plus"), Num(2)>> }
BinaryOperators == {"Plus", "Minus", "EqualsEquals", "NotEquals", "And", "Or"}
AssignPrograms ==
    { VarOf("a", 3) \o <<t, Tk("Equals")>> \o v
          \o <<Tk("Semicolon"), Tk("EndOfFile")>> :
        t \in AssignTargets, v \in AssignValues }
    \cup
    { VarOf("a", 3) \o <<l, Tk(op), t, Tk("Equals"), Num(5),
                          Tk("Semicolon"), Tk("EndOfFile")>> :
        l \in { Num(1), Id("a") }, op \in BinaryOperators, t \in AssignTargets }
NewFromLexerAssign == NewFromLexerWith(AssignPrograms)
NextAssign == NewFromLexerAssign \/ CompileOnce
SpecAssign == Init /\ [][NextAssign]_vars

\* The targets followed by "=", and those of them that start a statement:
\* expression() parses these with precedence Assignment, the operand of a
\* binary operator is parsed with a higher one.
TargetsWritten ==
    { i \in 2..(Len(compiler.tokens) - 1) :
        /\ compiler.tokens[i].type \in {"Identifier", "DT", "ST"}
        /\ compiler.tokens[i + 1].type = "Equals"
        /\ compiler.tokens[i - 1].type # "Var" }
TargetsAtAssignment ==
    { i \in TargetsWritten : compiler.tokens[i - 1].type \notin BinaryOperators }
\* The opcodes of an assignment: a load into the register of a (V0), into
\* the delay timer or into the sound timer
AssignOpcodes ==
    { k \in DOMAIN compiler.asm :
        \/ compiler.asm[k].op = "LDRegReg" /\ compiler.asm[k].a = 0
        \/ compiler.asm[k].op \in {"LDDTReg", "LDSTReg"} }

\* C35: name = expr, DT = expr, ST = expr are compiled as assignments only
\* where the enclosing compile_precedence has precedence <= Assignment; the
\* "=" after an operand of a binary operator is not compiled as an
\* assignment to the operand.
C35_AssignAtAssignment ==
    lastOp = "compile" =>
        Cardinality(AssignOpcodes) = Cardinality(TargetsAtAssignment)

---------------------------------------------------------------------------
(* Calls with any number of arguments *)

\* var a = 1; var r = 2;  (0 to 2 of them)   fn f(x, y) { }   f(1, 2, 3);
\* with 0 to MaxParams parameters and 0 to MaxArgs arguments
MaxParams == 2
MaxArgs == 3
ParamNames == <<"x", "y", "z", "w">>
RECURSIVE ArgList(_)
ArgList(m) ==
    IF m = 0 THEN <<>>
    ELSE IF m = 1 THEN <<Num(1)>>
    ELSE ArgList(m - 1) \o <<Tk("Comma"), Num(m)>>
ArityPrograms ==
    { OuterVars(k) \o FnNamed("f", SubSeq(ParamNames, 1, n), <<>>)
          \o CallOf("f", ArgList(m)) \o <<Tk("EndOfFile")>> :
        k \in 0..MaxOuter, n \in 0..MaxParams, m \in 0..MaxArgs }
NewFromLexerArity == NewFromLexerWith(ArityPrograms)
NextArity == NewFromLexerArity \/ CompileOnce
SpecArity == Init /\ [][NextArity]_vars

\* Of the program being compiled: the variables declared before the call,
\* the parameters of f and the arguments of the call
VarsDeclared ==
    Cardinality({ i \in DOMAIN compiler.tokens : compiler.tokens[i].type = "Var" })
CallSite == CHOOSE i \in CallSites : TRUE
ParamsDeclared ==
    Cardinality({ i \in 1..CallSite :
                    /\ compiler.tokens[i].type = "Identifier"
                    /\ compiler.tokens[i - 1].type \in {"LeftParen", "Comma"} })
ArgsPassed ==
    Cardinality({ i \in CallSite..Len(compiler.tokens) :
                    compiler.tokens[i].type = "Number" })
\* The opcodes before the CALL are the moves V(i) <- V(top - N + i), top
\* being reg_stack_top after the arguments
MovesEmitted(top, n) ==
    /\ OpIndices("CALL") # {}
    /\ \A k \in OpIndices("CALL") :
         /\ k > n
         /\ \A i \in 0..(n - 1) :
              compiler.asm[k - n + i] = LDRegReg(i, WrapU16(WrapU16(top - n) + i))

\* C36: a call with M arguments of a function with N parameters is never
\* rejected: compile() completes for every M and N, emits the N moves
\* V(i) <- V(top - N + i) and leaves reg_stack_top changed by M - N.
C36_ArityUnchecked ==
    lastOp = "compile" =>
        /\ ~compiler.panic
        /\ MovesEmitted(VarsDeclared + ArgsPassed, ParamsDeclared)
        /\ compiler.reg_stack_top
               = WrapU16(VarsDeclared + ArgsPassed - ParamsDeclared)

---------------------------------------------------------------------------
(* Statements that leave the register stack as they found it *)

\* var a = 1; var r = 2;  (0 to 2 of them), then nothing or one of
\*     I = 20;   DT = e;   ST = e;   a = e;   DRAW(e, e, 5);
\* and then  var c = 7;  with e one of  5   a   1 + 2   1 == 2
StmtExpressions(k) ==
    { <<Num(5)>>, <<Num(1), Tk("Plus"), Num(2)>>,
      <<Num(1), Tk("EqualsEquals"), Num(2)>> }
        \cup (IF k = 0 THEN {} ELSE { <<Id("a")>> })
NeutralStatements(k) ==
    { <<>>, <<Tk("I"), Tk("Equals"), Num(20), Tk("Semicolon")>> }
        \cup { <<Tk(t), Tk("Equals")>> \o e \o <<Tk("Semicolon")>> :
                 t \in {"DT", "ST"}, e \in StmtExpressions(k) }
        \cup { <<Id("a"), Tk("Equals")>> \o e \o <<Tk("Semicolon")>> :
                 e \in (IF k = 0 THEN {} ELSE StmtExpressions(k)) }
        \cup { <<Tk("Draw"), Tk("LeftParen")>> \o e \o <<Tk("Comma")>> \o e
                   \o <<Tk("Comma"), Num(5), Tk("RightParen"), Tk("Semicolon")>> :
                 e \in StmtExpressions(k) }
NeutralPrograms ==
    UNION { { OuterVars(k) \o s \o VarOf("c", 7) \o <<Tk("EndOfFile")>> :
                s \in NeutralStatements(k) } : k \in 0..MaxOuter }
NewFromLexerNeutral == NewFromLexerWith(NeutralPrograms)
NextNeutral == NewFromLexerNeutral \/ CompileOnce
SpecNeutral == Init /\ [][NextNeutral]_vars

\* The declaration after the statement is compiled as it is without the
\* statement: c is given the register after the outer variables, and
\* reg_stack_top counts the declarations.
DeclaredAsWithout ==
    /\ ~compiler.panic
    /\ compiler.reg_stack_top = VarsDeclared
    /\ compiler.asm # <<>>
    /\ compiler.asm[Len(compiler.asm)] = LDRegByte(VarsDeclared - 1, 7)

\* C37: I = NUMBER; leaves reg_stack_top as it was before the statement, so
\* the registers of every later variable and temporary are those chosen
\* without the statement; the same holds for DT = expr; ST = expr;
\* name = expr; and DRAW(e1, e2, n);
C37_NeutralStatements == lastOp = "compile" => DeclaredAsWithout

---------------------------------------------------------------------------
(* The snapshot and the other calls of the host *)

MaxSnapshotTicks == 2
LoadSnapshot == LoadFrom(RestoreRoms)
TickSnapshot == TickWithin(MaxSnapshotTicks)
\* the host takes one snapshot in a session, and disassembles once, after
\* it has taken the snapshot
SaveOnce == saved_state = Chip8State_new /\ SaveState
DisassembleOnce ==
    disasm_map = EmptyMap /\ lastOp = "save_state" /\ Disassemble
NextSnapshot ==
    \/ LoadSnapshot \/ TickSnapshot \/ SetKeyRestore \/ Reset \/ SaveOnce
    \/ LoadState \/ DisassembleOnce
SpecSnapshot == Init /\ [][NextSnapshot]_vars

\* save_state copies the whole running state into the snapshot, every other
\* call leaves the snapshot as it is, and load_state makes the whole
\* snapshot the running state.
SnapshotStep ==
    /\ lastOp' = "save_state" => saved_state' = state
    /\ lastOp' # "save_state" => saved_state' = saved_state
    /\ lastOp' = "load_state" => state' = saved_state

\* C38: the snapshot is changed only by save_state (tick, set_key, reset,
\* load, disassemble and load_state leave it unchanged), so a snapshot taken
\* under one ROM and restored after the load of another brings back the
\* first ROM's RAM and registers, and load_state before any save_state
\* yields the all-zero initial state.
C38_SnapshotKept == saved_state = Chip8State_new /\ [][SnapshotStep]_vars
\* The snapshot taken while the first ROM ran has been restored after the
\* other ROM was loaded and run: the RAM holds the first ROM.
C38_Witness ==
    /\ lastOp = "load_state" /\ ~halted
    /\ rom = RomCallRet
    /\ prevOp = "tick"
    /\ disasm_map # EmptyMap
    /\ state.ram = LoadedImages[RomDrawWrap]
    /\ state.pc = RomBase + 4
    /\ ticks = 2

---------------------------------------------------------------------------
(* Family 0 and the RAM a program leaves unwritten *)

MaxZeroTicks == 6
LoadZero == LoadFrom(ZeroRoms)
TickZero == TickWithin(MaxZeroTicks)
NextZero == LoadZero \/ TickZero
SpecZero == Init /\ [][NextZero]_vars

\* A tick on a word 0nn0 clears the framebuffer and takes pc 2 further,
\* without a panic and without any other change but the timers'; a tick
\* panics when its fetch address is outside the RAM.
ZeroFamilyStep ==
    /\ (TickStep /\ CanFetch /\ Family(NextWord) = 0 /\ NextWord % 16 = 0) =>
         /\ ~halted'
         /\ state' = [state EXCEPT !.opcode = NextWord,
                                   !.pc = state.pc + 2,
                                   !.framebuffer = ZeroFramebuffer,
                                   !.delay_timer = Dec(@),
                                   !.sound_timer = Dec(@)]
    /\ (TickStep /\ ~InRam(state.pc)) => (halted' /\ state' = state)

\* C39: family 0 is dispatched on the low nibble alone: a tick on any word
\* 0nn0, the zero word of unwritten RAM included, clears the framebuffer and
\* advances pc by 2 without error, so a program that runs off its last
\* instruction goes on through the zeroed RAM until the fetch address
\* leaves the RAM and the machine halts.
C39_ZeroWordClears == [][ZeroFamilyStep]_vars
\* The program has run through the zero words at FFA, FFC and FFE, which
\* cleared the glyph it drew, and has halted fetching at 1000.
C39_Witness ==
    /\ lastOp = "tick" /\ halted
    /\ rom = RomRunsOffEnd
    /\ state.pc = RamSize
    /\ state.opcode = 0
    /\ state.framebuffer = ZeroFramebuffer
    /\ ticks = 6

---------------------------------------------------------------------------
(* The timers under a host that keeps ticking *)

MaxTimerTicks == 260
LoadTimers == LoadFrom(TimerRoms)
TickTimers == TickWithin(MaxTimerTicks)
NextTimers == LoadTimers \/ TickTimers \/ SetKeyRestore
SpecTimers == Init /\ [][NextTimers]_vars

\* A timer that held v when n ticks ago it was last set.
TimerAfter(v, n) == IF v > n THEN v - n ELSE 0

\* In a program that sets the delay timer to v in tick 2 and the sound timer
\* to u in tick 4 and never again, the timers are v and u less the ticks
\* since, the setting tick included, and 0 from the 255th such tick on.
TimersRunOut ==
    rom \in RunOutRoms =>
        /\ ticks >= 2 => state.delay_timer = TimerAfter(rom[2], ticks - 1)
        /\ ticks >= 4 => state.sound_timer = TimerAfter(rom[6], ticks - 3)
        /\ ticks >= 2 + 254 => state.delay_timer = 0
        /\ ticks >= 4 + 254 => state.sound_timer = 0

\* No step of the host raises a timer but a tick on Fx15 (Fx18); a tick that
\* completes on any other word takes each timer one down, or leaves it at 0,
\* and so does the tick on an Fx0A that finds no key down and stays at pc.
TimerStep ==
    LET w == NextWord
        Fx15 == TickStep /\ CanFetch /\ IsFx(w, 21)
        Fx18 == TickStep /\ CanFetch /\ IsFx(w, 24)
        Blocked == /\ TickStep /\ CanFetch /\ IsFx(w, 10)
                   /\ \A i \in 0..15 : state.keys[i] = 0 IN
    /\ state'.delay_timer > state.delay_timer => Fx15
    /\ state'.sound_timer > state.sound_timer => Fx18
    /\ (TickStep /\ ~halted' /\ ~Fx15) =>
           state'.delay_timer = Dec(state.delay_timer)
    /\ (TickStep /\ ~halted' /\ ~Fx18) =>
           state'.sound_timer = Dec(state.sound_timer)
    /\ Blocked => /\ ~halted'
                  /\ state'.pc = state.pc
                  /\ state'.delay_timer = Dec(state.delay_timer)
                  /\ state'.sound_timer = Dec(state.sound_timer)

\* C40: under a host that keeps calling tick, a timer that no Fx15 (Fx18)
\* sets again is 0 within at most 255 ticks and stays 0; a timer never
\* increases except in a tick that executes Fx15 (Fx18), and it goes on
\* decrementing on the ticks where Fx0A is blocked waiting for a key.
C40_TimersRunOut == []TimersRunOut /\ [][TimerStep]_vars
\* Both timers were set to 255 and have run out while the program has been
\* blocked on LD V3,K, with no key down, since tick 5.
C40_Witness ==
    /\ lastOp = "tick" /\ ~halted
    /\ rom = RomRunOut(255, 255)
    /\ ticks = 4 + 254
    /\ state.opcode = 62218
    /\ state.pc = RomBase + 8
    /\ \A i \in 0..15 : state.keys[i] = 0
    /\ state.delay_timer = 0 /\ state.sound_timer = 0

=========================================================================
